---------------------------- MODULE Spec2Model ----------------------------
(***************************************************************************)
(* Model of oat_tools.references: the line classifier, the reference       *)
(* ledger (ReferenceCollection) and the document reconciler (MarkdownFile) *)
(* together with the `references fix` command that drives them; and of     *)
(* oat_tools.captions: the caption patterns and the CaptionFile.           *)
(*                                                                         *)
(* Text is modelled as it is in the program: a string is a sequence of     *)
(* one-character strings, a file is one such sequence, a line is the       *)
(* sequence between two line breaks.                                       *)
(***************************************************************************)
EXTENDS Integers, Sequences, FiniteSets, TLC

(***************************************************************************)
(* Bounds of the model.                                                    *)
(***************************************************************************)
\* the longest file, in lines, that Init writes to disk
MaxLines == 3
\* how many times fix_references may write the file in one behaviour
MaxRuns == 4
\* the largest position handed to record_appearance by a direct caller
MaxPos == 1
\* how many appearances a direct caller records on one entry
MaxAppear == 1
\* how many entries a direct caller adds to a ledger
MaxRefs == 2
\* how many record_appearance calls are made on one fresh Reference
MaxCalls == 5
\* the longest caption file, in lines, that InitCaptions writes to disk
MaxCaptionLines == 3
\* how many times one behaviour lets fix_captions write the file
MaxWrites == 2
\* how many files one batch command is given
MaxBatch == 3
\* the longest file, in lines, that count_words is called for
MaxWordLines == 3

VARIABLES
    disk,   \* the content of the file at file_path
    md,     \* the MarkdownFile object of the running command, or NoObject
    pc,     \* where the command stands: idle, loaded, fixed, error
    err,    \* the ValueError that ended the command, or NoError
    runs,   \* how many times fix_references has written the file
    ret,    \* the value the last report method returned
    rc,     \* a ReferenceCollection driven directly through its methods
    res,    \* the outcome of the last direct call on rc
    arg,    \* the line handed to the last rc.add_reference call
    entry,  \* a Reference driven directly through record_appearance
    recorded, \* the positions handed to entry.record_appearance, in call order
    input,  \* a line handed to the line classifier
    out,    \* the classifier function last called on input, and its outcome
    cdisk,  \* the content of the file a CaptionFile is made for
    cf,     \* the CaptionFile object, or NoCaptionFile
    cpc,    \* where the caption command stands: idle, loaded
    cop,    \* the method of cf last called, or "none"
    cret,   \* the value that call returned
    cwrites, \* how many times file_path.write_text was called by cf
    orig,   \* history: the content of the file at file_path when the behaviour began
    hist,   \* history: for each entry of md, the positions recorded on it since its reset
    bfiles, \* the contents of the files of a batch, in argument order
    binput, \* history: the contents of those files when the batch began
    bnext,  \* the 1-based index of the file the batch loop is at
    bstatus, \* where the batch stands: idle, running, loaded, aborted, done
    wdoc,   \* the content of the file count_words is called for
    wret    \* None, or the outcome of count_words in a 1-tuple

\* the variables of the line classifier and single Reference driven directly
probeVars == <<entry, recorded, input, out>>

\* the variables of the caption renumberer
captionVars == <<cdisk, cf, cpc, cop, cret, cwrites>>

\* the variables of the batch command
batchVars == <<bfiles, binput, bnext, bstatus>>

\* the variables of the word counter
wordVars == <<wdoc, wret>>

\* the histories, the batch command and the word counter
restVars == <<orig, hist, batchVars, wordVars>>

vars == <<disk, md, pc, err, runs, ret, rc, res, arg, probeVars, captionVars, restVars>>

(***************************************************************************)
(* Strings.                                                                *)
(***************************************************************************)
NL == "\n"

\* str.split() and str.strip() with no argument work on whitespace
IsSpace(c) == c \in {" ", "\t"}

\* the characters of the regular expression class [\w-]
IsIdChar(c) == c \in {"a", "b", "c", "g", "x", "y", "_", "1", "2", "-"}

StartsWith(s, p) ==
    /\ Len(s) >= Len(p)
    /\ SubSeq(s, 1, Len(p)) = p

EndsWith(s, p) ==
    /\ Len(s) >= Len(p)
    /\ SubSeq(s, Len(s) - Len(p) + 1, Len(s)) = p

RECURSIVE Join(_, _)
\* sep.join(lines)
Join(lines, sep) ==
    IF lines = <<>> THEN <<>>
    ELSE IF Len(lines) = 1 THEN lines[1]
    ELSE lines[1] \o sep \o Join(Tail(lines), sep)

RECURSIVE SplitlinesFrom(_, _, _, _)
SplitlinesFrom(s, i, cur, acc) ==
    IF i > Len(s) THEN (IF cur = <<>> THEN acc ELSE Append(acc, cur))
    ELSE IF s[i] = NL THEN SplitlinesFrom(s, i + 1, <<>>, Append(acc, cur))
    ELSE SplitlinesFrom(s, i + 1, Append(cur, s[i]), acc)

\* str.splitlines(): the lines without their line breaks; a final line break
\* opens no further line
Splitlines(s) == SplitlinesFrom(s, 1, <<>>, <<>>)

RECURSIVE LStrip(_)
LStrip(s) ==
    IF s # <<>> /\ IsSpace(s[1]) THEN LStrip(Tail(s)) ELSE s

RECURSIVE RStrip(_)
RStrip(s) ==
    IF s # <<>> /\ IsSpace(s[Len(s)]) THEN RStrip(SubSeq(s, 1, Len(s) - 1)) ELSE s

\* str.strip()
Strip(s) == RStrip(LStrip(s))

RECURSIVE RStripNL(_)
\* str.rstrip("\n")
RStripNL(s) ==
    IF s # <<>> /\ s[Len(s)] = NL THEN RStripNL(SubSeq(s, 1, Len(s) - 1)) ELSE s

RECURSIVE SplitFrom(_, _, _, _)
SplitFrom(s, i, cur, acc) ==
    IF i > Len(s) THEN (IF cur = <<>> THEN acc ELSE Append(acc, cur))
    ELSE IF IsSpace(s[i])
         THEN SplitFrom(s, i + 1, <<>>, IF cur = <<>> THEN acc ELSE Append(acc, cur))
    ELSE SplitFrom(s, i + 1, Append(cur, s[i]), acc)

\* str.split(): the whitespace-delimited words of s
Split(s) == SplitFrom(s, 1, <<>>, <<>>)

RECURSIVE IdRun(_, _)
\* the longest run of [\w-] characters of s that starts at index i
IdRun(s, i) ==
    IF i <= Len(s) /\ IsIdChar(s[i]) THEN <<s[i]>> \o IdRun(s, i + 1) ELSE <<>>

(***************************************************************************)
(* Line classifier.                                                        *)
(***************************************************************************)
NoId == <<>>

\* a call's outcome: the value it returned, or the ValueError it raised
Returned(v) == [raised |-> "NoError", val |-> v]
Raised(e) == [raised |-> e, val |-> <<>>]

\* re.match(r"^\[\^([\w-]+)\]:", word): the captured id, or NoId when the
\* word does not match. No id character is "]", so the id is the whole run
\* of id characters after "[^".
MatchDeclaration(word) ==
    LET id == IdRun(word, 3)
    IN IF /\ StartsWith(word, <<"[", "^">>)
          /\ id # <<>>
          /\ Len(word) >= Len(id) + 4
          /\ word[Len(id) + 3] = "]"
          /\ word[Len(id) + 4] = ":"
       THEN id
       ELSE NoId

\* extract_id(full_reference_line)
extract_id(full_reference_line) ==
    LET words == Split(full_reference_line)
    IN IF words = <<>> THEN Raised("empty_line")
       ELSE IF MatchDeclaration(words[1]) # NoId
            THEN Returned(MatchDeclaration(words[1]))
       ELSE Raised("invalid_id_format")

\* is_reference_line without the test for a declaration that has no text
IsReferenceLineAcceptingNoText(line) ==
    LET words == Split(line)
    IN IF words = <<>> THEN Returned(FALSE)
       ELSE Returned(/\ StartsWith(words[1], <<"[", "^">>)
                     /\ EndsWith(words[1], <<"]", ":">>))

\* is_reference_line(line)
is_reference_line(line) ==
    LET words == Split(line)
    IN IF words = <<>> THEN Returned(FALSE)
       ELSE LET first_word == words[1]
                rest == Tail(words)
                bracketed == /\ StartsWith(first_word, <<"[", "^">>)
                             /\ EndsWith(first_word, <<"]", ":">>)
            IN IF Len(rest) = 0 /\ bracketed THEN Raised("no_text_after_id")
               ELSE Returned(bracketed)

(***************************************************************************)
(* Reference and ReferenceCollection.                                      *)
(***************************************************************************)
\* first_appearance_pos is None (the empty tuple) or an int (a 1-tuple)
None == <<>>
Some(n) == <<n>>

\* Reference(full_reference_line): the dataclass defaults and __post_init__
Reference(full_reference_line) ==
    [full_reference_line |-> full_reference_line,
     reference_id |-> extract_id(full_reference_line).val,
     first_appearance_pos |-> None,
     number_of_appearances |-> 0]

\* record_appearance taking every position handed to it as the first one
RecordAppearanceKeepingLast(ref, position) ==
    [ref EXCEPT
        !.first_appearance_pos = Some(position),
        !.number_of_appearances = ref.number_of_appearances + 1]

\* Reference.record_appearance(position)
record_appearance(ref, position) ==
    [ref EXCEPT
        !.first_appearance_pos =
            IF ref.first_appearance_pos = None THEN Some(position)
            ELSE IF ref.first_appearance_pos[1] > position THEN Some(position)
            ELSE ref.first_appearance_pos,
        !.number_of_appearances = ref.number_of_appearances + 1]

\* add_reference without the loop that looks for the id among the entries
AddReferenceWithoutDuplicateTest(references, full_reference_line) ==
    LET got == extract_id(full_reference_line)
    IN IF got.raised # "NoError" THEN Raised(got.raised)
       ELSE Returned(Append(references, Reference(full_reference_line)))

\* add_reference looking for the id only among the entries never cited
AddReferenceTestingUncitedOnly(references, full_reference_line) ==
    LET got == extract_id(full_reference_line)
    IN IF got.raised # "NoError" THEN Raised(got.raised)
       ELSE IF \E i \in 1..Len(references) :
                  /\ references[i].reference_id = got.val
                  /\ references[i].number_of_appearances = 0
            THEN Raised("duplicate_id")
       ELSE Returned(Append(references, Reference(full_reference_line)))

\* ReferenceCollection.add_reference(full_reference_line) on the list
\* references: the new list, or the error raised
add_reference(references, full_reference_line) ==
    LET got == extract_id(full_reference_line)
    IN IF got.raised # "NoError" THEN Raised(got.raised)
       ELSE IF \E i \in 1..Len(references) : references[i].reference_id = got.val
            THEN Raised("duplicate_id")
       ELSE Returned(Append(references, Reference(full_reference_line)))

\* ReferenceCollection.get_unappearing_references()
get_unappearing_references(references) ==
    SelectSeq(references, LAMBDA ref : ref.number_of_appearances = 0)

\* the sort key of get_ordered_by_pos: first_appearance_pos or math.inf.
\* `or` takes math.inf for None and for 0, both falsy. A key is <<0, n>> for
\* the number n and <<1, 0>> for math.inf.
SortKey(ref) ==
    IF ref.first_appearance_pos = None THEN <<1, 0>>
    ELSE IF ref.first_appearance_pos[1] = 0 THEN <<1, 0>>
    ELSE <<0, ref.first_appearance_pos[1]>>

KeyLess(k1, k2) ==
    \/ k1[1] < k2[1]
    \/ k1[1] = k2[1] /\ k1[2] < k2[2]

RECURSIVE InsertSortedUnstable(_, _)
\* InsertSorted putting ref before the entries of equal key
InsertSortedUnstable(sorted, ref) ==
    IF sorted = <<>> THEN <<ref>>
    ELSE IF ~KeyLess(SortKey(sorted[1]), SortKey(ref))
         THEN <<ref>> \o sorted
    ELSE <<sorted[1]>> \o InsertSortedUnstable(Tail(sorted), ref)

RECURSIVE InsertSorted(_, _)
\* ref put into the sorted list after every entry whose key is not greater
InsertSorted(sorted, ref) ==
    IF sorted = <<>> THEN <<ref>>
    ELSE IF KeyLess(SortKey(ref), SortKey(sorted[1]))
         THEN <<ref>> \o sorted
    ELSE <<sorted[1]>> \o InsertSorted(Tail(sorted), ref)

RECURSIVE StableSort(_, _)
\* sorted(references, key=...): Python's sort is stable
StableSort(references, sorted) ==
    IF references = <<>> THEN sorted
    ELSE StableSort(Tail(references), InsertSorted(sorted, references[1]))

\* ReferenceCollection.get_ordered_by_pos(only_appearing)
get_ordered_by_pos(references, only_appearing) ==
    LET ordered == StableSort(references, <<>>)
    IN IF only_appearing
       THEN SelectSeq(ordered, LAMBDA ref : ref.number_of_appearances > 0)
       ELSE ordered

(***************************************************************************)
(* MarkdownFile.                                                           *)
(***************************************************************************)
NoObject == [body_lines |-> <<>>, references |-> <<>>, constructed |-> FALSE]

RECURSIVE LoadLinesSkippingErrors(_, _, _)
\* LoadLines with a line that raises dropped and the rest processed
LoadLinesSkippingErrors(lines, body_lines, references) ==
    IF lines = <<>>
    THEN Returned([body_lines |-> body_lines, references |-> references,
                   constructed |-> TRUE])
    ELSE LET line == lines[1]
             isref == is_reference_line(line)
         IN IF isref.raised # "NoError"
            THEN LoadLinesSkippingErrors(Tail(lines), body_lines, references)
            ELSE IF isref.val
                 THEN LET added == add_reference(references, Strip(line))
                      IN IF added.raised # "NoError"
                         THEN LoadLinesSkippingErrors(Tail(lines), body_lines,
                                                      references)
                         ELSE LoadLinesSkippingErrors(Tail(lines), body_lines,
                                                      added.val)
            ELSE LoadLinesSkippingErrors(Tail(lines), Append(body_lines, line),
                                         references)

RECURSIVE LoadLinesStrippingBody(_, _, _)
\* LoadLines with line.strip() appended to body_lines
LoadLinesStrippingBody(lines, body_lines, references) ==
    IF lines = <<>>
    THEN Returned([body_lines |-> body_lines, references |-> references,
                   constructed |-> TRUE])
    ELSE LET line == lines[1]
             isref == is_reference_line(line)
         IN IF isref.raised # "NoError" THEN Raised(isref.raised)
            ELSE IF isref.val
                 THEN LET added == add_reference(references, Strip(line))
                      IN IF added.raised # "NoError" THEN Raised(added.raised)
                         ELSE LoadLinesStrippingBody(Tail(lines), body_lines,
                                                     added.val)
            ELSE LoadLinesStrippingBody(Tail(lines),
                                        Append(body_lines, Strip(line)),
                                        references)

RECURSIVE LoadLines(_, _, _)
\* the loop of _load_references over the lines still to read: the object's
\* body_lines and references when every line was taken, or the error that
\* is_reference_line or add_reference raised at the first line that has one
LoadLines(lines, body_lines, references) ==
    IF lines = <<>>
    THEN Returned([body_lines |-> body_lines, references |-> references,
                   constructed |-> TRUE])
    ELSE LET line == lines[1]
             isref == is_reference_line(line)
         IN IF isref.raised # "NoError" THEN Raised(isref.raised)
            ELSE IF isref.val
                 THEN LET added == add_reference(references, Strip(line))
                      IN IF added.raised # "NoError" THEN Raised(added.raised)
                         ELSE LoadLines(Tail(lines), body_lines, added.val)
            ELSE LoadLines(Tail(lines), Append(body_lines, line), references)

\* MarkdownFile._load_references() on the text read from file_path
_load_references(content) == LoadLines(Splitlines(content), <<>>, <<>>)

RECURSIVE FindIter(_, _, _)
\* [m.start() for m in pattern.finditer(text)] for the literal pattern pat,
\* scanning from index i: the 0-based starts of the non-overlapping matches
FindIter(text, pat, i) ==
    IF i + Len(pat) - 1 > Len(text) THEN <<>>
    ELSE IF SubSeq(text, i, i + Len(pat) - 1) = pat
         THEN <<i - 1>> \o FindIter(text, pat, i + Len(pat))
    ELSE FindIter(text, pat, i + 1)

\* re.compile(r"\[\^" + re.escape(ref_id) + r"\]"): a literal
CitationPattern(ref_id) == <<"[", "^">> \o ref_id \o <<"]">>

RECURSIVE RecordAll(_, _)
\* for match in matches: ref.record_appearance(match.start())
RecordAll(ref, starts) ==
    IF starts = <<>> THEN ref
    ELSE RecordAll(record_appearance(ref, starts[1]), Tail(starts))

\* _count_appearances without the reset of the counts and positions
CountAppearancesWithoutReset(m) ==
    LET body_text == Join(m.body_lines, <<NL>>)
    IN [m EXCEPT !.references =
           [i \in 1..Len(m.references) |->
               RecordAll(m.references[i],
                         FindIter(body_text,
                                  CitationPattern(m.references[i].reference_id), 1))]]

\* _count_appearances resetting the counts and keeping the positions
CountAppearancesKeepingPositions(m) ==
    LET body_text == Join(m.body_lines, <<NL>>)
        reset(ref) == [ref EXCEPT !.number_of_appearances = 0]
    IN [m EXCEPT !.references =
           [i \in 1..Len(m.references) |->
               RecordAll(reset(m.references[i]),
                         FindIter(body_text,
                                  CitationPattern(m.references[i].reference_id), 1))]]

\* MarkdownFile._count_appearances(): the references after the reset and the
\* scan of the body text
_count_appearances(m) ==
    LET body_text == Join(m.body_lines, <<NL>>)
        reset(ref) == [ref EXCEPT !.number_of_appearances = 0,
                                  !.first_appearance_pos = None]
    IN [m EXCEPT !.references =
           [i \in 1..Len(m.references) |->
               RecordAll(reset(m.references[i]),
                         FindIter(body_text,
                                  CitationPattern(m.references[i].reference_id), 1))]]

\* MarkdownFile(file_path) with auto_load: _load_references, then
\* _count_appearances; an error raised by the first leaves no object
MarkdownFile(content) ==
    LET loaded == _load_references(content)
    IN IF loaded.raised # "NoError" THEN loaded
       ELSE Returned(_count_appearances(loaded.val))

RECURSIVE FindCitations(_, _)
\* [m.group(1) for m in re.finditer(r"\[\^([\w-]+)\]", text)] from index i
FindCitations(text, i) ==
    IF i > Len(text) THEN <<>>
    ELSE LET id == IdRun(text, i + 2)
         IN IF /\ i + 1 <= Len(text)
               /\ text[i] = "["
               /\ text[i + 1] = "^"
               /\ id # <<>>
               /\ i + 2 + Len(id) <= Len(text)
               /\ text[i + 2 + Len(id)] = "]"
            THEN <<id>> \o FindCitations(text, i + 3 + Len(id))
            ELSE FindCitations(text, i + 1)

RECURSIVE TallyOfDistinctIds(_, _)
\* Tally with every id counted once, however often it is cited
TallyOfDistinctIds(ids, counts) ==
    IF ids = <<>> THEN counts
    ELSE IF \E k \in 1..Len(counts) : counts[k].reference_id = ids[1]
         THEN TallyOfDistinctIds(Tail(ids), counts)
    ELSE TallyOfDistinctIds(Tail(ids),
                            Append(counts, [reference_id |-> ids[1],
                                            number_of_appearances |-> 1]))

RECURSIVE Tally(_, _)
\* orphan_references[ref_id] += 1 over the matches: a dict keeps its keys in
\* the order of their first insertion
Tally(ids, counts) ==
    IF ids = <<>> THEN counts
    ELSE LET at == {k \in 1..Len(counts) : counts[k].reference_id = ids[1]}
         IN IF at = {}
            THEN Tally(Tail(ids),
                       Append(counts, [reference_id |-> ids[1],
                                       number_of_appearances |-> 1]))
            ELSE LET k == CHOOSE k \in at : TRUE
                 IN Tally(Tail(ids),
                          [counts EXCEPT ![k].number_of_appearances = @ + 1])

\* get_orphan_references without the test against existing_references
OrphansWithoutLedgerTest(m) ==
    Tally(FindCitations(Join(m.body_lines, <<NL>>), 1), <<>>)

\* MarkdownFile.get_orphan_references(): the records without their file_path
get_orphan_references(m) ==
    LET body_text == Join(m.body_lines, <<NL>>)
        existing_references ==
            {m.references[i].reference_id : i \in 1..Len(m.references)}
        orphans == SelectSeq(FindCitations(body_text, 1),
                             LAMBDA id : id \notin existing_references)
    IN Tally(orphans, <<>>)

\* MarkdownFile.get_unused_references(): the records without their file_path
get_unused_references(m) ==
    LET ordered == get_ordered_by_pos(m.references, FALSE)
        unused == SelectSeq(ordered, LAMBDA ref : ref.number_of_appearances = 0)
    IN [i \in 1..Len(unused) |->
           [reference_id |-> unused[i].reference_id,
            number_of_appearances |-> unused[i].number_of_appearances]]

\* _get_final_content with only_appearing=False
FinalContentKeepingUnused(m) ==
    LET body == Join(m.body_lines, <<NL>>)
        references == get_ordered_by_pos(m.references, FALSE)
        reference_lines ==
            [i \in 1..Len(references) |-> references[i].full_reference_line]
    IN IF reference_lines = <<>> THEN body
       ELSE (IF EndsWith(body, <<NL>>) THEN RStripNL(body) ELSE body)
            \o <<NL>> \o <<NL>> \o Join(reference_lines, <<NL>>) \o <<NL>>

\* _get_final_content with the empty lines of the body left out
FinalContentDroppingEmptyLines(m) ==
    LET body == Join(SelectSeq(m.body_lines, LAMBDA l : l # <<>>), <<NL>>)
        references == get_ordered_by_pos(m.references, TRUE)
        reference_lines ==
            [i \in 1..Len(references) |-> references[i].full_reference_line]
    IN IF reference_lines = <<>> THEN body
       ELSE body \o <<NL>> \o <<NL>> \o Join(reference_lines, <<NL>>) \o <<NL>>

\* _get_final_content without the rstrip of the body
FinalContentWithoutRstrip(m) ==
    LET body == Join(m.body_lines, <<NL>>)
        references == get_ordered_by_pos(m.references, TRUE)
        reference_lines ==
            [i \in 1..Len(references) |-> references[i].full_reference_line]
    IN IF reference_lines = <<>> THEN body
       ELSE body \o <<NL>> \o <<NL>> \o Join(reference_lines, <<NL>>) \o <<NL>>

\* MarkdownFile._get_final_content()
_get_final_content(m) ==
    LET body == Join(m.body_lines, <<NL>>)
        references == get_ordered_by_pos(m.references, TRUE)
        reference_lines ==
            [i \in 1..Len(references) |-> references[i].full_reference_line]
    IN IF reference_lines = <<>> THEN body
       ELSE (IF EndsWith(body, <<NL>>) THEN RStripNL(body) ELSE body)
            \o <<NL>> \o <<NL>> \o Join(reference_lines, <<NL>>) \o <<NL>>

(***************************************************************************)
(* The files the command is run on: up to MaxLines lines drawn from        *)
(* LinePool, with or without a line break after the last line.             *)
(***************************************************************************)
BlankLine == <<>>
SpaceLine == <<" ">>
TextLine == <<"x">>
\* "[^a] [^b]": a cited at offset 0 of the line, b after it
CiteAB == <<"[", "^", "a", "]", " ", "[", "^", "b", "]">>
\* "x[^b][^a]": b cited before a
CiteBA == <<"x", "[", "^", "b", "]", "[", "^", "a", "]">>
\* "[^c][^g][^g]": c cited at offset 0 of the line, g twice; no line declares g
CiteCGG == <<"[", "^", "c", "]", "[", "^", "g", "]", "[", "^", "g", "]">>
\* "[^a]: x"
DeclA == <<"[", "^", "a", "]", ":", " ", "x">>
\* "[^b]: y"
DeclB == <<"[", "^", "b", "]", ":", " ", "y">>
\* "[^c]: z"
DeclC == <<"[", "^", "c", "]", ":", " ", "z">>
\* " [^a]: y ": a second declaration of a, indented
DeclAIndented == <<" ", "[", "^", "a", "]", ":", " ", "y", " ">>
\* "[^a]:": a declaration without text
DeclNoText == <<"[", "^", "a", "]", ":">>
\* "[^]: x": a declaration without id
DeclNoId == <<"[", "^", "]", ":", " ", "x">>

LinePool ==
    {BlankLine, SpaceLine, TextLine, CiteAB, CiteBA, CiteCGG,
     DeclA, DeclB, DeclC, DeclAIndented, DeclNoText, DeclNoId}

Files ==
    {Join(ls, <<NL>>) \o end :
        ls \in UNION {[1..n -> LinePool] : n \in 0..MaxLines},
        end \in {<<>>, <<NL>>}}

NoReturn == [op |-> "none", val |-> <<>>]

\* no MarkdownFile made and none asked for
NoDocument ==
    /\ disk = <<>>
    /\ md = NoObject
    /\ pc = "idle"
    /\ err = "NoError"
    /\ runs = 0

\* no ReferenceCollection call made
NoLedgerCall ==
    /\ rc = <<>>
    /\ res = "none"
    /\ arg = <<>>

\* no Reference and no classifier function called directly
NoProbe ==
    /\ entry = Reference(DeclA)
    /\ recorded = <<>>
    /\ input = <<>>
    /\ out = NoReturn

NoCaptionFile == [lines |-> <<>>, captions |-> <<>>, constructed |-> FALSE]

\* no CaptionFile made and none asked for
NoCaptionCommand ==
    /\ cdisk = <<>>
    /\ cf = NoCaptionFile
    /\ cpc = "idle"
    /\ cop = "none"
    /\ cret = <<>>
    /\ cwrites = 0

\* no history kept
NoHistory ==
    /\ orig = <<>>
    /\ hist = <<>>

\* no batch command started
NoBatch ==
    /\ bfiles = <<>>
    /\ binput = <<>>
    /\ bnext = 1
    /\ bstatus = "idle"

\* count_words not called
NoWordCount ==
    /\ wdoc = <<>>
    /\ wret = None

Init ==
    /\ disk \in Files
    /\ md = NoObject
    /\ pc = "idle"
    /\ err = "NoError"
    /\ runs = 0
    /\ ret = NoReturn
    /\ NoLedgerCall
    /\ NoProbe
    /\ NoCaptionCommand
    /\ NoHistory
    /\ NoBatch
    /\ NoWordCount

(***************************************************************************)
(* `references fix` on one file (references_fix, one turn of its loop):    *)
(* md = MarkdownFile(file_path), then md.fix_references().  The command    *)
(* may be run again on the file it wrote.                                  *)
(***************************************************************************)
\* md = MarkdownFile(file_path): a ValueError raised while loading ends the
\* command with no object
Load ==
    /\ pc \in {"idle", "fixed"}
    /\ LET made == MarkdownFile(disk)
       IN IF made.raised = "NoError"
          THEN /\ md' = made.val
               /\ pc' = "loaded"
               /\ err' = "NoError"
          ELSE /\ md' = NoObject
               /\ pc' = "error"
               /\ err' = made.raised
    /\ ret' = NoReturn
    /\ UNCHANGED <<disk, runs, rc, res>>
    /\ UNCHANGED <<arg, probeVars, captionVars>>
    /\ UNCHANGED restVars

\* md._count_appearances() called again on the loaded object
Rescan ==
    /\ pc = "loaded"
    /\ md' = _count_appearances(md)
    /\ UNCHANGED <<disk, pc, err, runs, ret, rc, res>>
    /\ UNCHANGED <<arg, probeVars, captionVars>>
    /\ UNCHANGED restVars

\* md.get_orphan_references()
ReportOrphans ==
    /\ pc = "loaded"
    /\ ret' = [op |-> "get_orphan_references", val |-> get_orphan_references(md)]
    /\ UNCHANGED <<disk, md, pc, err, runs, rc, res>>
    /\ UNCHANGED <<arg, probeVars, captionVars>>
    /\ UNCHANGED restVars

\* md.get_unused_references()
ReportUnused ==
    /\ pc = "loaded"
    /\ ret' = [op |-> "get_unused_references", val |-> get_unused_references(md)]
    /\ UNCHANGED <<disk, md, pc, err, runs, rc, res>>
    /\ UNCHANGED <<arg, probeVars, captionVars>>
    /\ UNCHANGED restVars

\* md.fix_references(): _materialize(_get_final_content()) overwrites the file
Fix ==
    /\ pc = "loaded"
    /\ runs < MaxRuns
    /\ disk' = _get_final_content(md)
    /\ pc' = "fixed"
    /\ runs' = runs + 1
    /\ ret' = NoReturn
    /\ UNCHANGED <<md, err, rc, res>>
    /\ UNCHANGED <<arg, probeVars, captionVars>>
    /\ UNCHANGED restVars

Next ==
    \/ Load
    \/ Rescan
    \/ ReportOrphans
    \/ ReportUnused
    \/ Fix

Spec == Init /\ [][Next]_vars

(***************************************************************************)
(* A ReferenceCollection used directly, as the unit tests use it: any      *)
(* sequence of add_reference and record_appearance calls, and the ordering *)
(* query.                                                                  *)
(***************************************************************************)
\* the lines a direct caller hands to add_reference
AddPool == {DeclA, DeclB, DeclC, DeclAIndented, DeclNoId, TextLine, BlankLine}

InitLedger ==
    /\ NoDocument
    /\ ret = NoReturn
    /\ NoLedgerCall
    /\ NoProbe
    /\ NoCaptionCommand
    /\ NoHistory
    /\ NoBatch
    /\ NoWordCount

\* rc.add_reference(line)
AddReference ==
    /\ \E line \in AddPool :
          LET added == add_reference(rc, line)
          IN /\ IF added.raised = "NoError"
                THEN /\ Len(rc) < MaxRefs
                     /\ rc' = added.val
                     /\ res' = "added"
                ELSE /\ rc' = rc
                     /\ res' = added.raised
             /\ arg' = line
    /\ ret' = NoReturn
    /\ UNCHANGED <<disk, md, pc, err, runs, probeVars, captionVars>>
    /\ UNCHANGED restVars

\* rc.references[i].record_appearance(position)
RecordAppearance ==
    /\ \E i \in 1..Len(rc), position \in 0..MaxPos :
          /\ rc[i].number_of_appearances < MaxAppear
          /\ rc' = [rc EXCEPT ![i] = record_appearance(rc[i], position)]
    /\ res' = "recorded"
    /\ ret' = NoReturn
    /\ UNCHANGED <<disk, md, pc, err, runs, arg, probeVars, captionVars>>
    /\ UNCHANGED restVars

\* rc.get_ordered_by_pos(only_appearing)
OrderByPos ==
    /\ \E only_appearing \in BOOLEAN :
          ret' = [op |-> IF only_appearing THEN "get_ordered_by_pos(True)"
                         ELSE "get_ordered_by_pos(False)",
                  val |-> get_ordered_by_pos(rc, only_appearing)]
    /\ UNCHANGED <<disk, md, pc, err, runs, rc, res>>
    /\ UNCHANGED <<arg, probeVars, captionVars>>
    /\ UNCHANGED restVars

NextLedger ==
    \/ AddReference
    \/ RecordAppearance
    \/ OrderByPos

SpecLedger == InitLedger /\ [][NextLedger]_vars

(***************************************************************************)
(* What the claims speak of.                                               *)
(***************************************************************************)
\* the indices of text at which pat occurs
Occurrences(text, pat) ==
    {i \in 1..Len(text) :
        /\ i + Len(pat) - 1 <= Len(text)
        /\ SubSeq(text, i, i + Len(pat) - 1) = pat}

Min(S) == CHOOSE n \in S : \A k \in S : n <= k

\* the 0-based offsets in text of the citations [^id]
CitationOffsets(text, id) ==
    {i - 1 : i \in Occurrences(text, <<"[", "^">> \o id \o <<"]">>)}

\* the body text of the loaded document
BodyText == Join(md.body_lines, <<NL>>)

\* line is a declaration of id: its first word is [^id]: followed by text
Declares(line, id) ==
    LET words == Split(line)
    IN /\ Len(words) >= 2
       /\ words[1] = <<"[", "^">> \o id \o <<"]", ":">>

\* C1: the reference fix is idempotent: a run (load, then fix_references) on
\* a file that an earlier run wrote writes the content the file already has.
FixIsIdempotent ==
    [][(pc = "loaded" /\ pc' = "fixed" /\ runs >= 1) => disk' = disk]_vars

\* C2: in the content fix_references writes, of two declared references that
\* are both cited in the body, the one whose first citation has the smaller
\* offset in the body text (from 0) is declared earlier.
DeclarationsFollowFirstCitation ==
    pc = "fixed" =>
        LET lines == Splitlines(disk)
            Cited(id) == CitationOffsets(BodyText, id) # {}
            First(id) == Min(CitationOffsets(BodyText, id))
        IN \A i, j \in 1..Len(md.references) :
              LET a == md.references[i].reference_id
                  b == md.references[j].reference_id
              IN (Cited(a) /\ Cited(b) /\ First(a) < First(b)) =>
                     \E p, q \in 1..Len(lines) :
                        /\ p < q
                        /\ Declares(lines[p], a)
                        /\ Declares(lines[q], b)

\* the key the claim sorts by: the position, an unset position as +infinity
PositionKey(ref) ==
    IF ref.first_appearance_pos = None THEN <<1, 0>>
    ELSE <<0, ref.first_appearance_pos[1]>>

\* result is references sorted stably by PositionKey (the ids of a ledger
\* are distinct, so an entry is found by its id)
IsStableSortByPosition(result, references) ==
    LET At(r) == CHOOSE i \in 1..Len(references) :
                     references[i].reference_id = r.reference_id
    IN /\ Len(result) = Len(references)
       /\ {result[k] : k \in 1..Len(result)}
              = {references[i] : i \in 1..Len(references)}
       /\ \A k, l \in 1..Len(result) :
             k < l =>
                \/ KeyLess(PositionKey(result[k]), PositionKey(result[l]))
                \/ /\ PositionKey(result[k]) = PositionKey(result[l])
                   /\ At(result[k]) < At(result[l])

\* C6: after any add_reference and record_appearance calls,
\* get_ordered_by_pos(only_appearing=False) is the ledger sorted stably by
\* position, an unset position counting as +infinity: set positions (0
\* included) ascending, unset ones after them in insertion order.
OrderedByPosIsStableSort ==
    ret.op = "get_ordered_by_pos(False)" => IsStableSortByPosition(ret.val, rc)

\* the indices of the ledger entries of the loaded document that are cited
Survivors ==
    {i \in 1..Len(md.references) : md.references[i].number_of_appearances >= 1}

\* C3: fix_references writes, when a declaration has appearance_count >= 1,
\* the body text without its trailing newlines, one blank line, the full
\* declaration line of each such reference exactly once (and of no other)
\* joined by newlines, and a final newline; when none has, the body lines
\* joined by newlines and nothing more.
FixWritesBodyThenSurvivors ==
    pc = "fixed" =>
        IF Survivors = {}
        THEN disk = Join(md.body_lines, <<NL>>)
        ELSE \E order \in [1..Cardinality(Survivors) -> Survivors] :
                /\ \A k, l \in DOMAIN order : k # l => order[k] # order[l]
                /\ disk = RStripNL(BodyText) \o <<NL, NL>>
                          \o Join([k \in DOMAIN order |->
                                      md.references[order[k]].full_reference_line],
                                  <<NL>>)
                          \o <<NL>>

\* a fix wrote a surviving declaration after a body whose trailing empty
\* line it stripped
FixWroteSurvivorAfterStrippedBody ==
    /\ pc = "fixed"
    /\ Survivors # {}
    /\ EndsWith(BodyText, <<NL>>)

\* line is classified as a declaration
IsDeclarationLine(line) ==
    LET isref == is_reference_line(line)
    IN isref.raised = "NoError" /\ isref.val

\* the lines of a file that are not declarations, in file order
NonDeclarationLines(content) ==
    SelectSeq(Splitlines(content), LAMBDA l : ~IsDeclarationLine(l))

RECURSIVE DropTrailingEmpty(_)
\* lines without the empty lines at their end
DropTrailingEmpty(lines) ==
    IF lines # <<>> /\ lines[Len(lines)] = <<>>
    THEN DropTrailingEmpty(SubSeq(lines, 1, Len(lines) - 1))
    ELSE lines

\* C4: fix_references preserves the body: the non-declaration lines of the
\* file it writes are, apart from empty lines at the end of the body, the
\* non-declaration lines of the file it read, verbatim and in their order.
FixPreservesBody ==
    [][(pc = "loaded" /\ pc' = "fixed") =>
          DropTrailingEmpty(NonDeclarationLines(disk'))
              = DropTrailingEmpty(NonDeclarationLines(disk))]_vars

\* a fix rewrote a file whose body has a whitespace-only line and whose
\* declaration survived
FixKeptWhitespaceLine ==
    /\ pc = "fixed"
    /\ Survivors # {}
    /\ \E k \in 1..Len(md.body_lines) : md.body_lines[k] = SpaceLine

\* content has a line that is a declaration without text, a declaration
\* whose first word is not [^id]: with an id, or two declarations of one id
HasDomainError(content) ==
    LET lines == Splitlines(content)
        Bracketed(l) == LET words == Split(l)
                        IN /\ words # <<>>
                           /\ StartsWith(words[1], <<"[", "^">>)
                           /\ EndsWith(words[1], <<"]", ":">>)
        NoText(l) == Bracketed(l) /\ Len(Split(l)) = 1
        Malformed(l) == Bracketed(l) /\ MatchDeclaration(Split(l)[1]) = NoId
    IN \/ \E k \in 1..Len(lines) : NoText(lines[k]) \/ Malformed(lines[k])
       \/ \E k, l \in 1..Len(lines) :
             /\ k < l
             /\ Bracketed(lines[k])
             /\ Bracketed(lines[l])
             /\ MatchDeclaration(Split(lines[k])[1])
                    = MatchDeclaration(Split(lines[l])[1])

\* C5: a domain error is fatal for the file and leaves it untouched: loading
\* a file with a malformed declaration, a declaration without text or a
\* duplicate id raises (and only then), no object and no partial result
\* comes of it, the file stays as it is, and no fix ever writes it.
LoadErrorIsFatal ==
    /\ [][(pc # "loaded" /\ pc' # pc) =>
             /\ (pc' = "error") = HasDomainError(disk)
             /\ pc' = "error" =>
                   /\ disk' = disk
                   /\ md' = NoObject
                   /\ err' # "NoError"]_vars
    /\ [][pc = "error" => (pc' = "error" /\ disk' = disk)]_vars
    /\ [](pc = "error" => runs = 0)

\* a load that had taken a declaration into the ledger ended with the
\* duplicate-id error
LoadFailedOnDuplicate ==
    /\ pc = "error"
    /\ err = "duplicate_id"
    /\ Len(Splitlines(disk)) = MaxLines

\* C7: after the scan, and after any rescans, every ledger entry has
\* number_of_appearances equal to the number of occurrences of [^id] in the
\* body text and first_appearance_pos equal to the offset of the earliest, or
\* unset when there is none.
ScanCountsCitations ==
    pc \in {"loaded", "fixed"} =>
        \A i \in 1..Len(md.references) :
            LET ref == md.references[i]
                offsets == CitationOffsets(BodyText, ref.reference_id)
            IN /\ ref.number_of_appearances = Cardinality(offsets)
               /\ ref.first_appearance_pos =
                      IF offsets = {} THEN None ELSE Some(Min(offsets))

\* a loaded document with an id cited twice, first at offset 0
ScannedTwoCitations ==
    /\ pc = "loaded"
    /\ \E i \in 1..Len(md.references) :
          /\ md.references[i].number_of_appearances = 2
          /\ md.references[i].first_appearance_pos = Some(0)

\* the ids of a list of records or entries
Ids(records) == [k \in 1..Len(records) |-> records[k].reference_id]

\* the ids cited in text as [^id]
CitedIds(text) ==
    {id \in {IdRun(text, i) : i \in 1..Len(text)} :
        id # <<>> /\ CitationOffsets(text, id) # {}}

\* C8: get_orphan_references returns one record for each id cited in the
\* body and not declared in the ledger, with the number of its citations, in
\* the order of the ids' first citations; no declared id is reported, and no
\* orphan id is among the unused references.
OrphansAreUndeclaredCitations ==
    ret.op = "get_orphan_references" =>
        LET declared == {md.references[i].reference_id : i \in 1..Len(md.references)}
            orphans == CitedIds(BodyText) \ declared
            unused == get_unused_references(md)
        IN /\ Len(ret.val) = Cardinality(orphans)
           /\ {ret.val[k].reference_id : k \in 1..Len(ret.val)} = orphans
           /\ \A k \in 1..Len(ret.val) :
                 /\ ret.val[k].number_of_appearances
                        = Cardinality(CitationOffsets(BodyText, ret.val[k].reference_id))
                 /\ \A u \in 1..Len(unused) :
                       unused[u].reference_id # ret.val[k].reference_id
           /\ \A k, l \in 1..Len(ret.val) :
                 k < l => Min(CitationOffsets(BodyText, ret.val[k].reference_id))
                              < Min(CitationOffsets(BodyText, ret.val[l].reference_id))

\* the orphan report of a document that cites an undeclared id twice and a
\* declared id besides
OrphanReportedBesideDeclared ==
    /\ ret.op = "get_orphan_references"
    /\ Len(ret.val) = 1
    /\ ret.val[1].number_of_appearances = 2
    /\ Survivors # {}

\* C9: get_unused_references returns one record, with count 0, for each
\* ledger entry with number_of_appearances 0 and none for a cited entry, in
\* the entries' insertion order: the ids of get_unappearing_references.
UnusedAreUnappearingInOrder ==
    ret.op = "get_unused_references" =>
        /\ Ids(ret.val) = Ids(get_unappearing_references(md.references))
        /\ Ids(ret.val) = Ids(SelectSeq(md.references,
                                        LAMBDA ref : ref.number_of_appearances = 0))
        /\ \A k \in 1..Len(ret.val) : ret.val[k].number_of_appearances = 0

\* the unused report of a document with two unused declarations, declared
\* b before a
UnusedReportedInFileOrder ==
    /\ ret.op = "get_unused_references"
    /\ Ids(ret.val) = << <<"b">>, <<"a">> >>

\* C10: the split partitions the file: body_lines is the subsequence of the
\* non-declaration lines of the file, unmodified, empty lines included; the
\* ledger has one entry per declaration line, in file order; every line is
\* one or the other.
SplitPartitionsTheFile ==
    pc = "loaded" =>
        LET lines == Splitlines(disk)
            declarations == SelectSeq(lines, IsDeclarationLine)
        IN /\ md.body_lines = SelectSeq(lines, LAMBDA l : ~IsDeclarationLine(l))
           /\ Len(md.references) = Len(declarations)
           /\ \A k \in 1..Len(declarations) :
                 /\ md.references[k].full_reference_line = Strip(declarations[k])
                 /\ Declares(declarations[k], md.references[k].reference_id)
           /\ Len(md.body_lines) + Len(md.references) = Len(lines)

\* a loaded file with a declaration between a whitespace-only line and an
\* empty line
SplitKeptLinesAroundDeclaration ==
    /\ pc = "loaded"
    /\ Splitlines(disk) = <<SpaceLine, DeclAIndented, BlankLine>>
    /\ md.body_lines = <<SpaceLine, BlankLine>>
    /\ Len(md.references) = 1

(***************************************************************************)
(***************************************************************************)
(***************************************************************************)
(* The line classifier under direct calls, and a document loaded around    *)
(* the classified line (SpecClassify).                                     *)
(***************************************************************************)
\* first words: declarations of a, and words that miss or add something
Tokens ==
    {<<>>,
     <<"x">>,
     <<"[", "^", "a", "]", ":">>,
     <<"[", "^", "a", "-", "1", "]", ":">>,
     <<"[", "^", "]", ":">>,
     <<"[", "^", "a", ".", "]", ":">>,
     <<"[", "^", "a", "]", "b", "]", ":">>,
     <<"[", "^", "a", "]", ":", "]", ":">>,
     <<"[", "^", "a", "]", ":", "x">>,
     <<"[", "^", "a", "]">>,
     <<"[", "a", "]", ":">>,
     <<"a", "]", ":">>}

\* what stands before the first word of a line, and after it
Leads == {<<>>, <<" ">>}
Rests == {<<>>, <<" ">>, <<" ", "x">>}

ClassifyPool == {lead \o tok \o rest : lead \in Leads, tok \in Tokens, rest \in Rests}

\* the lines of a document before and after the classified one
Context == {<<>>, <<TextLine>>, <<DeclB>>}

InitClassify ==
    /\ NoDocument
    /\ ret = NoReturn
    /\ NoLedgerCall
    /\ entry = Reference(DeclA)
    /\ recorded = <<>>
    /\ input \in ClassifyPool
    /\ out = NoReturn
    /\ NoCaptionCommand
    /\ NoHistory
    /\ NoBatch
    /\ NoWordCount

\* extract_id(input)
CallExtractId ==
    /\ out' = [op |-> "extract_id", val |-> extract_id(input)]
    /\ UNCHANGED <<disk, md, pc, err, runs, ret, rc, res, arg, entry, recorded, input, captionVars>>
    /\ UNCHANGED restVars

\* is_reference_line(input)
CallIsReferenceLine ==
    /\ out' = [op |-> "is_reference_line", val |-> is_reference_line(input)]
    /\ UNCHANGED <<disk, md, pc, err, runs, ret, rc, res, arg, entry, recorded, input, captionVars>>
    /\ UNCHANGED restVars

\* MarkdownFile(file_path) for a file that holds input among other lines
LoadAround ==
    /\ pc = "idle"
    /\ \E before \in Context, after \in Context :
          LET content == Join(before \o <<input>> \o after, <<NL>>)
              made == MarkdownFile(content)
          IN /\ disk' = content
             /\ IF made.raised = "NoError"
                THEN /\ md' = made.val
                     /\ pc' = "loaded"
                     /\ err' = "NoError"
                ELSE /\ md' = NoObject
                     /\ pc' = "error"
                     /\ err' = made.raised
    /\ UNCHANGED <<runs, ret, rc, res, arg, probeVars, captionVars>>
    /\ UNCHANGED restVars

NextClassify ==
    \/ CallExtractId
    \/ CallIsReferenceLine
    \/ LoadAround

SpecClassify == InitClassify /\ [][NextClassify]_vars

\* word is "[^" id "]:" for a non-empty run id of word characters and hyphens
IsDeclarationToken(word) ==
    /\ Len(word) >= 5
    /\ StartsWith(word, <<"[", "^">>)
    /\ EndsWith(word, <<"]", ":">>)
    /\ \A i \in 3..(Len(word) - 2) : IsIdChar(word[i])

\* the first whitespace-delimited token of line is a declaration token
FirstTokenIsDeclaration(line) ==
    /\ Split(line) # <<>>
    /\ IsDeclarationToken(Split(line)[1])

\* the only token of line is a declaration token
OnlyTokenIsDeclaration(line) ==
    /\ Len(Split(line)) = 1
    /\ IsDeclarationToken(Split(line)[1])

\* C14: is_reference_line classifies a line as a declaration if and only if
\* its first whitespace-delimited token is [^id]: exactly; a line whose
\* first token is anything else is a body line (False), not a declaration
\* and not an error. (A declaration token alone on its line is the error of
\* C15.)
IsReferenceLineIffExactToken ==
    out.op = "is_reference_line" =>
        IF ~FirstTokenIsDeclaration(input) THEN out.val = Returned(FALSE)
        ELSE IF OnlyTokenIsDeclaration(input)
             THEN out.val.raised = "no_text_after_id"
        ELSE out.val = Returned(TRUE)

\* C15: a line whose only token is [^id]: makes is_reference_line raise, so
\* that loading a document that contains the line aborts: no object is made,
\* the line is in no ledger and in no body.
DeclarationWithoutTextRaises ==
    OnlyTokenIsDeclaration(input) =>
        /\ out.op = "is_reference_line" => out.val = Raised("no_text_after_id")
        /\ pc # "idle" =>
              /\ pc = "error"
              /\ err = "no_text_after_id"
              /\ md = NoObject

\* is_reference_line was called on an indented [^id]: alone on its line, and
\* a document holding the line between two others was loaded
LoneDeclarationClassifiedAndLoaded ==
    /\ OnlyTokenIsDeclaration(input)
    /\ input # Split(input)[1]
    /\ out.op = "is_reference_line"
    /\ pc = "error"
    /\ Len(Splitlines(disk)) = 3

\* the id between "[^" and "]:" of a declaration token
IdOfToken(word) == SubSeq(word, 3, Len(word) - 2)

\* C16: extract_id fails with the invalid-format error when the line is
\* empty or whitespace-only or when its first whitespace-delimited token is
\* not a declaration token [^id]: ; otherwise it returns the id between
\* "[^" and "]:" of the first token.
ExtractIdOfFirstToken ==
    out.op = "extract_id" =>
        IF FirstTokenIsDeclaration(input)
        THEN out.val = Returned(IdOfToken(Split(input)[1]))
        ELSE out.val.raised \in {"empty_line", "invalid_id_format"}

(* One Reference under direct record_appearance calls (SpecRecord).        *)
(***************************************************************************)
InitRecord ==
    /\ NoDocument
    /\ ret = NoReturn
    /\ NoLedgerCall
    /\ NoProbe
    /\ NoCaptionCommand
    /\ NoHistory
    /\ NoBatch
    /\ NoWordCount

\* Reference(full_reference_line): a fresh entry replaces the one held
MakeReference ==
    /\ \E full_reference_line \in {DeclA, DeclB} :
          entry' = Reference(full_reference_line)
    /\ recorded' = <<>>
    /\ UNCHANGED <<disk, md, pc, err, runs, ret, rc, res, arg, input, out, captionVars>>
    /\ UNCHANGED restVars

\* entry.record_appearance(position)
Record ==
    /\ Len(recorded) < MaxCalls
    /\ \E position \in 0..MaxPos :
          /\ entry' = record_appearance(entry, position)
          /\ recorded' = Append(recorded, position)
    /\ UNCHANGED <<disk, md, pc, err, runs, ret, rc, res, arg, input, out, captionVars>>
    /\ UNCHANGED restVars

NextRecord ==
    \/ MakeReference
    \/ Record

SpecRecord == InitRecord /\ [][NextRecord]_vars

\* C13: whatever positions were recorded on a fresh entry, and in whatever
\* order, first_appearance_pos is their minimum and number_of_appearances
\* is the number of calls, a repeated position counting each time.
RecordedMinimumAndCount ==
    recorded # <<>> =>
        /\ entry.first_appearance_pos =
              Some(Min({recorded[i] : i \in 1..Len(recorded)}))
        /\ entry.number_of_appearances = Len(recorded)

\* three or more calls, the lowest position coming after a higher one and
\* one position recorded twice
RecordedLowestLateWithRepeat ==
    /\ Len(recorded) >= 3
    /\ recorded[1] > recorded[Len(recorded)]
    /\ \E i, j \in 1..Len(recorded) : i # j /\ recorded[i] = recorded[j]

(* The ledger under direct calls (SpecLedger).                             *)
(***************************************************************************)
\* C11: after any sequence of add_reference calls, successful or failing,
\* and record_appearance calls, no two entries of the ledger have the same
\* reference_id.
LedgerIdsAreUnique ==
    \A i, j \in 1..Len(rc) :
        rc[i].reference_id = rc[j].reference_id => i = j

\* a ledger of two entries, one of them cited, has just refused a duplicate
LedgerRefusedDuplicateBesideCited ==
    /\ Len(rc) >= 2
    /\ res = "duplicate_id"
    /\ \E i \in 1..Len(rc) : rc[i].number_of_appearances > 0

\* the step is an add_reference call: record_appearance leaves "recorded" in
\* res and get_ordered_by_pos leaves its name in ret
IsAddReferenceStep ==
    /\ ret' = NoReturn
    /\ res' # "recorded"

\* the entry of the ledger carrying the id of the line, as a set of indexes
EntriesWithIdOf(references, full_reference_line) ==
    {i \in 1..Len(references) :
        /\ extract_id(full_reference_line).raised = "NoError"
        /\ references[i].reference_id = extract_id(full_reference_line).val}

\* C12: add_reference with a line whose id is already in the ledger fails
\* with the duplicate-reference error, however many citations the existing
\* entry has, and leaves the ledger as it was: same entries, order, full
\* lines, counts and positions.
DuplicateAddFailsAndKeepsLedger ==
    [][(IsAddReferenceStep /\ EntriesWithIdOf(rc, arg') # {})
          => (res' = "duplicate_id" /\ rc' = rc)]_vars

\* a duplicate was refused for an entry cited as often as the bound allows,
\* by a line that differs from the entry's own full line
DuplicateRefusedForCitedEntry ==
    /\ res = "duplicate_id"
    /\ \E i \in EntriesWithIdOf(rc, arg) :
          /\ rc[i].number_of_appearances = MaxAppear
          /\ rc[i].full_reference_line # arg

(***************************************************************************)
(* Captions: the patterns, Caption and CaptionFile.                        *)
(***************************************************************************)
Digits == <<"0", "1", "2", "3", "4", "5", "6", "7", "8", "9">>

\* \d
IsDigit(c) == \E d \in 1..Len(Digits) : Digits[d] = c

\* the value of the digit c
DigitValue(c) == (CHOOSE d \in 1..Len(Digits) : Digits[d] = c) - 1

RECURSIVE DigitRun(_, _)
\* \d+ is greedy: the longest run of digits of s that starts at index i
DigitRun(s, i) ==
    IF i <= Len(s) /\ IsDigit(s[i]) THEN <<s[i]>> \o DigitRun(s, i + 1) ELSE <<>>

RECURSIVE ParseInt(_)
\* int(digits)
ParseInt(digits) ==
    IF digits = <<>> THEN 0
    ELSE 10 * ParseInt(SubSeq(digits, 1, Len(digits) - 1))
            + DigitValue(digits[Len(digits)])

RECURSIVE FormatInt(_)
\* f"{n}" for an int n >= 0
FormatInt(n) ==
    IF n < 10 THEN <<Digits[n + 1]>>
    ELSE FormatInt(n \div 10) \o <<Digits[(n % 10) + 1]>>

\* "**Kuva "
KuvaOpen == <<"*", "*", "K", "u", "v", "a", " ">>

NoMatch == <<>>

\* CAPTION_PATTERN.match(s): the groups <<digits, text>> of
\* r"\*\*Kuva (\d+)\*\*: (.+)" matched at the start of s, or NoMatch. The
\* text is all that follows "**: " and is not empty.
CAPTION_PATTERN(s) ==
    LET digits == DigitRun(s, Len(KuvaOpen) + 1)
        after == Len(KuvaOpen) + Len(digits)
    IN IF /\ StartsWith(s, KuvaOpen)
          /\ digits # <<>>
          /\ Len(s) >= after + 5
          /\ SubSeq(s, after + 1, after + 4) = <<"*", "*", ":", " ">>
       THEN <<digits, SubSeq(s, after + 5, Len(s))>>
       ELSE NoMatch

\* r"\*\*Kuva (\d+):\*\*" matches in s at index i
MalformedAt(s, i) ==
    LET digits == DigitRun(s, i + Len(KuvaOpen))
        after == i - 1 + Len(KuvaOpen) + Len(digits)
    IN /\ i + Len(KuvaOpen) - 1 <= Len(s)
       /\ SubSeq(s, i, i + Len(KuvaOpen) - 1) = KuvaOpen
       /\ digits # <<>>
       /\ Len(s) >= after + 3
       /\ SubSeq(s, after + 1, after + 3) = <<":", "*", "*">>

\* MALFORMED_CAPTION_PATTERN.search(s) finds a match
MALFORMED_CAPTION_PATTERN(s) == \E i \in 1..Len(s) : MalformedAt(s, i)

\* Caption.get_renumbered_line(new_number)
get_renumbered_line(caption, new_number) ==
    KuvaOpen \o FormatInt(new_number) \o <<"*", "*", ":", " ">> \o caption.text

\* is_caption_line(line)
is_caption_line(line) == CAPTION_PATTERN(Strip(line)) # NoMatch

\* parse_caption(line, line_number): the Caption in a 1-tuple, or None
parse_caption(line, line_number) ==
    LET match == CAPTION_PATTERN(Strip(line))
    IN IF match # NoMatch
       THEN Some([line_number |-> line_number,
                  current_number |-> ParseInt(match[1]),
                  text |-> match[2],
                  full_line |-> line])
       ELSE None

RECURSIVE LoadCaptionsFrom(_, _)
\* the loop of _load_captions from the 1-based index i of lines on
LoadCaptionsFrom(lines, i) ==
    IF i > Len(lines) THEN <<>>
    ELSE parse_caption(lines[i], i - 1) \o LoadCaptionsFrom(lines, i + 1)

\* CaptionFile(file_path) on a file of the given content: __init__ and
\* _load_captions
CaptionFile(content) ==
    LET lines == Splitlines(content)
    IN [lines |-> lines,
        captions |-> LoadCaptionsFrom(lines, 1),
        constructed |-> TRUE]

\* how many characters of a caption text an issue shows
ShownTextLen == 50

\* caption.text[:50] + ("..." if len(caption.text) > 50 else "")
ShownText(text) ==
    IF Len(text) > ShownTextLen
    THEN SubSeq(text, 1, ShownTextLen) \o <<".", ".", ".">>
    ELSE text

\* the CaptionIssue of the caption at position expected_number
CaptionIssue(caption, expected_number) ==
    [line_number |-> caption.line_number + 1,
     current_number |-> caption.current_number,
     expected_number |-> expected_number,
     caption_text |-> ShownText(caption.text)]

RECURSIVE IssuesFromExpectingLineNumber(_, _)
\* IssuesFrom expecting each caption to carry its 1-based line number
IssuesFromExpectingLineNumber(captions, expected_number) ==
    IF expected_number > Len(captions) THEN <<>>
    ELSE (IF captions[expected_number].current_number
                # captions[expected_number].line_number + 1
          THEN <<CaptionIssue(captions[expected_number],
                              captions[expected_number].line_number + 1)>>
          ELSE <<>>)
         \o IssuesFromExpectingLineNumber(captions, expected_number + 1)

RECURSIVE IssuesFrom(_, _)
\* the loop of get_caption_issues from position expected_number on
IssuesFrom(captions, expected_number) ==
    IF expected_number > Len(captions) THEN <<>>
    ELSE (IF captions[expected_number].current_number # expected_number
          THEN <<CaptionIssue(captions[expected_number], expected_number)>>
          ELSE <<>>)
         \o IssuesFrom(captions, expected_number + 1)

\* CaptionFile.get_caption_issues()
get_caption_issues(file) == IssuesFrom(file.captions, 1)

\* CaptionFile.is_in_order()
is_in_order(file) == Len(get_caption_issues(file)) = 0

RECURSIVE MalformedFrom(_, _)
\* the loop of get_malformed_captions from the 1-based index i of lines on
MalformedFrom(lines, i) ==
    IF i > Len(lines) THEN <<>>
    ELSE (IF MALFORMED_CAPTION_PATTERN(Strip(lines[i]))
          THEN <<[line_number |-> i, full_line |-> Strip(lines[i])]>>
          ELSE <<>>)
         \o MalformedFrom(lines, i + 1)

\* CaptionFile.get_malformed_captions()
get_malformed_captions(file) == MalformedFrom(file.lines, 1)

\* caption.full_line[:len(full_line) - len(full_line.lstrip())]
LeadingWhitespace(full_line) ==
    SubSeq(full_line, 1, Len(full_line) - Len(LStrip(full_line)))

RECURSIVE FixLinesWithoutPrefix(_, _, _)
\* FixLines writing the renumbered line without the leading whitespace
FixLinesWithoutPrefix(fixed_lines, captions, expected_number) ==
    IF expected_number > Len(captions) THEN fixed_lines
    ELSE LET caption == captions[expected_number]
         IN FixLinesWithoutPrefix(
                IF caption.current_number # expected_number
                THEN [fixed_lines EXCEPT ![caption.line_number + 1] =
                         get_renumbered_line(caption, expected_number)]
                ELSE fixed_lines,
                captions, expected_number + 1)

RECURSIVE FixLines(_, _, _)
\* the loop of _get_fixed_content from position expected_number on
FixLines(fixed_lines, captions, expected_number) ==
    IF expected_number > Len(captions) THEN fixed_lines
    ELSE LET caption == captions[expected_number]
         IN FixLines(
                IF caption.current_number # expected_number
                THEN [fixed_lines EXCEPT ![caption.line_number + 1] =
                         LeadingWhitespace(caption.full_line)
                         \o get_renumbered_line(caption, expected_number)]
                ELSE fixed_lines,
                captions, expected_number + 1)

\* CaptionFile._get_fixed_content()
_get_fixed_content(file) == Join(FixLines(file.lines, file.captions, 1), <<NL>>)

\* fix_captions writing the fixed content whether or not there are issues
FixCaptionsAlwaysWriting(file) ==
    [count |-> Len(get_caption_issues(file)),
     written |-> Some(_get_fixed_content(file))]

\* CaptionFile.fix_captions(): the count returned and the content handed
\* to file_path.write_text, None when write_text is not called
fix_captions(file) ==
    LET issues == get_caption_issues(file)
    IN IF Len(issues) = 0
       THEN [count |-> 0, written |-> None]
       ELSE [count |-> Len(issues), written |-> Some(_get_fixed_content(file))]

(***************************************************************************)
(* The caption file through its methods (SpecCaptions).                    *)
(***************************************************************************)
\* "**Kuva 1**: a": the caption numbered 1
Kuva1 == <<"*", "*", "K", "u", "v", "a", " ", "1", "*", "*", ":", " ", "a">>
\* " **Kuva 2**: c ": a caption numbered 2 between a leading and a trailing space
Kuva2Indented ==
    <<" ", "*", "*", "K", "u", "v", "a", " ", "2", "*", "*", ":", " ", "c",
      " ">>
\* "**Kuva 10**: e": a caption with a number of two digits
Kuva10 ==
    <<"*", "*", "K", "u", "v", "a", " ", "1", "0", "*", "*", ":", " ", "e">>
\* "**Kuva 1:** d": the colon inside the bold markers
KuvaMalformed == <<"*", "*", "K", "u", "v", "a", " ", "1", ":", "*", "*", " ", "d">>
\* "**Kuva 2**: **Kuva 1:**": a caption whose text holds the malformed marker
KuvaBoth ==
    <<"*", "*", "K", "u", "v", "a", " ", "2", "*", "*", ":", " ", "*", "*",
      "K", "u", "v", "a", " ", "1", ":", "*", "*">>

CaptionLinePool ==
    {Kuva1, Kuva2Indented, Kuva10, KuvaMalformed, KuvaBoth, TextLine}

\* the files on disk: up to MaxCaptionLines lines joined by "\n", with or
\* without a line terminator after the last one
CaptionFiles ==
    {Join(lines, <<NL>>) \o end :
        lines \in UNION {[1..n -> CaptionLinePool] : n \in 0..MaxCaptionLines},
        end \in {<<>>, <<NL>>}}

InitCaptions ==
    /\ NoDocument
    /\ ret = NoReturn
    /\ NoLedgerCall
    /\ NoProbe
    /\ cdisk \in CaptionFiles
    /\ cf = NoCaptionFile
    /\ cpc = "idle"
    /\ cop = "none"
    /\ cret = <<>>
    /\ cwrites = 0
    /\ NoHistory
    /\ NoBatch
    /\ NoWordCount

\* cf = CaptionFile(file_path)
LoadCaptions ==
    /\ cf' = CaptionFile(cdisk)
    /\ cpc' = "loaded"
    /\ cop' = "none"
    /\ cret' = <<>>
    /\ UNCHANGED <<cdisk, cwrites>>
    /\ UNCHANGED <<disk, md, pc, err, runs, ret, rc, res, arg, probeVars>>
    /\ UNCHANGED restVars

\* cf.get_caption_issues()
ReportIssues ==
    /\ cpc = "loaded"
    /\ cop' = "get_caption_issues"
    /\ cret' = get_caption_issues(cf)
    /\ UNCHANGED <<cdisk, cf, cpc, cwrites>>
    /\ UNCHANGED <<disk, md, pc, err, runs, ret, rc, res, arg, probeVars>>
    /\ UNCHANGED restVars

\* cf.is_in_order()
IsInOrder ==
    /\ cpc = "loaded"
    /\ cop' = "is_in_order"
    /\ cret' = is_in_order(cf)
    /\ UNCHANGED <<cdisk, cf, cpc, cwrites>>
    /\ UNCHANGED <<disk, md, pc, err, runs, ret, rc, res, arg, probeVars>>
    /\ UNCHANGED restVars

\* cf.get_malformed_captions()
ReportMalformed ==
    /\ cpc = "loaded"
    /\ cop' = "get_malformed_captions"
    /\ cret' = get_malformed_captions(cf)
    /\ UNCHANGED <<cdisk, cf, cpc, cwrites>>
    /\ UNCHANGED <<disk, md, pc, err, runs, ret, rc, res, arg, probeVars>>
    /\ UNCHANGED restVars

\* fix_captions followed by a reload of the object from the file it wrote
FixCaptionsRefreshing ==
    /\ cpc = "loaded"
    /\ cwrites < MaxWrites
    /\ LET fixed == fix_captions(cf)
       IN /\ cop' = "fix_captions"
          /\ cret' = fixed.count
          /\ IF fixed.written = None
             THEN UNCHANGED <<cdisk, cwrites, cf>>
             ELSE /\ cdisk' = fixed.written[1]
                  /\ cwrites' = cwrites + 1
                  /\ cf' = CaptionFile(fixed.written[1])
    /\ UNCHANGED cpc
    /\ UNCHANGED <<disk, md, pc, err, runs, ret, rc, res, arg, probeVars>>
    /\ UNCHANGED restVars

\* cf.fix_captions(): cf keeps the lines and captions it loaded
FixCaptions ==
    /\ cpc = "loaded"
    /\ cwrites < MaxWrites
    /\ LET fixed == fix_captions(cf)
       IN /\ cop' = "fix_captions"
          /\ cret' = fixed.count
          /\ IF fixed.written = None
             THEN UNCHANGED <<cdisk, cwrites>>
             ELSE /\ cdisk' = fixed.written[1]
                  /\ cwrites' = cwrites + 1
    /\ UNCHANGED <<cf, cpc>>
    /\ UNCHANGED <<disk, md, pc, err, runs, ret, rc, res, arg, probeVars>>
    /\ UNCHANGED restVars

NextCaptions ==
    \/ LoadCaptions
    \/ ReportIssues
    \/ IsInOrder
    \/ ReportMalformed
    \/ FixCaptions

SpecCaptions == InitCaptions /\ [][NextCaptions]_vars

\* the step is a fix_captions call that changed something: every other
\* action of SpecCaptions leaves another name in cop
IsFixCaptionsStep == cop' = "fix_captions"

\* the positions, among the captions of file, whose caption carries another
\* number than its 1-based position
Mismatched(file) ==
    {k \in 1..Len(file.captions) : file.captions[k].current_number # k}

\* the 1-based indexes of the lines of file that hold a mismatched caption
MismatchedLines(file) ==
    {file.captions[k].line_number + 1 : k \in Mismatched(file)}

\* the line of a caption after renumbering to k: the leading whitespace of
\* the original line, "**Kuva k**: " and the caption text
RenumberedLine(caption, k) ==
    LeadingWhitespace(caption.full_line)
        \o KuvaOpen \o FormatInt(k) \o <<"*", "*", ":", " ">> \o caption.text

\* C17: fix_captions renumbers by file position. Every caption whose number
\* differs from its 1-based position k has its line rewritten to the
\* original leading whitespace, "**Kuva k**: " and the original text; a
\* fresh load of the file then finds as many captions, with the same texts,
\* numbered 1..n in file order (is_in_order); the value returned is the
\* number of lines rewritten.
FixRenumbersByPosition ==
    [][IsFixCaptionsStep =>
          LET written == Splitlines(cdisk')
              fresh == CaptionFile(cdisk')
              n == Len(cf.captions)
          IN /\ \A k \in Mismatched(cf) :
                   written[cf.captions[k].line_number + 1]
                       = RenumberedLine(cf.captions[k], k)
             /\ Len(fresh.captions) = n
             /\ \A k \in 1..n :
                   /\ fresh.captions[k].text = cf.captions[k].text
                   /\ fresh.captions[k].current_number = k
                   /\ fresh.captions[k].line_number = cf.captions[k].line_number
             /\ is_in_order(fresh)
             /\ cret' = Cardinality({i \in 1..Len(written) :
                                            written[i] # cf.lines[i]})]_vars

\* fix_captions has rewritten two of three captions, one of them indented,
\* and left the caption that was numbered by its position
FixRenumberedTwoOfThree ==
    /\ cop = "fix_captions"
    /\ cret = 2
    /\ Len(cf.captions) = 3
    /\ cdisk = _get_fixed_content(cf)
    /\ \E k \in Mismatched(cf) :
          LeadingWhitespace(cf.captions[k].full_line) # <<>>

\* C18: fix_captions changes only the lines of mismatched captions: every
\* other line, correctly numbered captions included, and every line
\* terminator, the one ending the last line included, is as in the input.
FixChangesOnlyMismatchedLines ==
    [][IsFixCaptionsStep =>
          LET before == Splitlines(cdisk)
              after == Splitlines(cdisk')
          IN /\ Len(after) = Len(before)
             /\ \A i \in 1..Len(before) :
                   i \notin MismatchedLines(cf) => after[i] = before[i]
             /\ EndsWith(cdisk', <<NL>>) <=> EndsWith(cdisk, <<NL>>)]_vars

\* C19: when every caption that the CaptionFile loaded carries its 1-based
\* position (a file without captions included), fix_captions returns 0 and
\* does not call write_text, so the file keeps its content; write_text is
\* called only by a fix_captions that returns a nonzero count.
FixWithoutIssuesDoesNotWrite ==
    [][/\ (IsFixCaptionsStep /\ Mismatched(cf) = {}) =>
             /\ cret' = 0
             /\ cwrites' = cwrites
             /\ cdisk' = cdisk
       /\ cwrites' # cwrites =>
             /\ IsFixCaptionsStep
             /\ cret' > 0]_vars

\* fix_captions returned 0 for a file of two or more captions and the file
\* was never written
FixReturnedZeroForOrderedCaptions ==
    /\ cop = "fix_captions"
    /\ cret = 0
    /\ Len(cf.captions) >= 2
    /\ cwrites = 0

\* C20: a line that get_malformed_captions reports is not in the parsed
\* caption sequence, so it takes no position in the numbering and
\* fix_captions never rewrites it; it is reported with its 1-based line
\* number.
MalformedLinesAreNotCaptions ==
    cop = "get_malformed_captions" =>
        \A m \in 1..Len(cret) :
            /\ cret[m].line_number \in 1..Len(cf.lines)
            /\ cret[m].full_line = Strip(cf.lines[cret[m].line_number])
            /\ \A k \in 1..Len(cf.captions) :
                  cf.captions[k].line_number + 1 # cret[m].line_number

\* the 1-based indexes of the lines of file that are captions
CaptionLineIndexes(file) ==
    {i \in 1..Len(file.lines) : is_caption_line(file.lines[i])}

\* C21: get_caption_issues returns, in file order, one issue for each
\* caption whose number differs from its 1-based position k among the
\* captions of the file, with expected_number k and the caption's 1-based
\* line number, and none for any other caption; is_in_order is true exactly
\* when there is no such caption.
IssuesAreMismatchedPositions ==
    /\ cpc = "loaded" =>
          /\ Len(cf.captions) = Cardinality(CaptionLineIndexes(cf))
          /\ \A k \in 1..Len(cf.captions) :
                /\ cf.captions[k].line_number + 1 \in CaptionLineIndexes(cf)
                /\ k > 1 => cf.captions[k - 1].line_number
                                < cf.captions[k].line_number
    /\ cop = "get_caption_issues" =>
          /\ Len(cret) = Cardinality(Mismatched(cf))
          /\ \A i \in 1..Len(cret) :
                LET k == cret[i].expected_number
                IN /\ k \in Mismatched(cf)
                   /\ cret[i].current_number = cf.captions[k].current_number
                   /\ cret[i].line_number = cf.captions[k].line_number + 1
                   /\ i > 1 => cret[i - 1].expected_number < k
    /\ cop = "is_in_order" => cret = (Mismatched(cf) = {})

\* issues were reported for a file where a caption stands on another line
\* than its position and another caption is numbered by its position
IssueReportedBesideOrderedCaption ==
    /\ cop = "get_caption_issues"
    /\ Len(cret) >= 1
    /\ Len(cf.captions) > Len(cret)
    /\ \E i \in 1..Len(cret) : cret[i].line_number # cret[i].expected_number

(***************************************************************************)
(* `references fix` over several files (references_fix): for each file in  *)
(* argument order, md = MarkdownFile(file_path), then md.fix_references(). *)
(* A ValueError raised by the load ends the command (SpecBatch).           *)
(***************************************************************************)
\* "[^a]: x", "[^b]: y", "x[^b][^a]": the fix puts b before a
BatchReordered == Join(<<DeclA, DeclB, CiteBA>>, <<NL>>)
\* "x", "[^c]: z": the fix drops c
BatchUnused == Join(<<TextLine, DeclC>>, <<NL>>)
\* "[^a]: x", " [^a]: y ": the load raises for the duplicate
BatchDuplicate == Join(<<DeclA, DeclAIndented>>, <<NL>>)
\* "x", "[^a]:": the load raises for the declaration without text
BatchNoText == Join(<<TextLine, DeclNoText>>, <<NL>>)
\* "x"
BatchPlain == TextLine

BatchContents ==
    {BatchReordered, BatchUnused, BatchDuplicate, BatchNoText, BatchPlain}

\* the files of one command: distinct paths, any contents
Batches == UNION {[1..n -> BatchContents] : n \in 1..MaxBatch}

\* writing through the path of the first file whatever file is being fixed
BatchWriteThroughFirstPath(files, i, content) == [files EXCEPT ![1] = content]

\* md_path.write_text(content) for the i-th file of the batch
BatchWrite(files, i, content) == [files EXCEPT ![i] = content]

InitBatch ==
    /\ NoDocument
    /\ ret = NoReturn
    /\ NoLedgerCall
    /\ NoProbe
    /\ NoCaptionCommand
    /\ NoHistory
    /\ binput \in Batches
    /\ bfiles = binput
    /\ bnext = 1
    /\ bstatus = "running"
    /\ NoWordCount

\* md = MarkdownFile(file_path) for the file the loop is at
BatchLoad ==
    /\ bstatus = "running"
    /\ LET made == MarkdownFile(bfiles[bnext])
       IN IF made.raised = "NoError"
          THEN /\ md' = made.val
               /\ err' = "NoError"
               /\ bstatus' = "loaded"
          ELSE /\ md' = NoObject
               /\ err' = made.raised
               /\ bstatus' = "aborted"
    /\ UNCHANGED <<bfiles, binput, bnext>>
    /\ UNCHANGED <<disk, pc, runs, ret, rc, res, arg, probeVars, captionVars, orig, hist, wordVars>>

\* md.fix_references(), and the loop moves to the next file
BatchFix ==
    /\ bstatus = "loaded"
    /\ bfiles' = BatchWrite(bfiles, bnext, _get_final_content(md))
    /\ bnext' = bnext + 1
    /\ bstatus' = IF bnext = Len(bfiles) THEN "done" ELSE "running"
    /\ UNCHANGED <<md, err, binput>>
    /\ UNCHANGED <<disk, pc, runs, ret, rc, res, arg, probeVars, captionVars, orig, hist, wordVars>>

NextBatch ==
    \/ BatchLoad
    \/ BatchFix

SpecBatch == InitBatch /\ [][NextBatch]_vars

\* C22: in a batch over distinct files, what is written to a file depends
\* only on that file's own original content, and a failure while loading a
\* file leaves that file and every file after it as they were, and the
\* files fixed before it as they were written.
BatchFilesAreIndependent ==
    bstatus # "idle" =>
        /\ \A i \in 1..Len(bfiles) :
              IF i < bnext
              THEN /\ MarkdownFile(binput[i]).raised = "NoError"
                   /\ bfiles[i] = _get_final_content(MarkdownFile(binput[i]).val)
              ELSE bfiles[i] = binput[i]
        /\ bstatus = "aborted" <=>
              /\ bnext <= Len(bfiles)
              /\ \A i \in 1..(bnext - 1) : MarkdownFile(binput[i]).raised = "NoError"
              /\ MarkdownFile(binput[bnext]).raised # "NoError"
              /\ err = MarkdownFile(binput[bnext]).raised

\* the load of the second of three files failed after the first file was
\* rewritten
BatchAbortedAfterRewrite ==
    /\ bstatus = "aborted"
    /\ Len(bfiles) = 3
    /\ bnext = 2
    /\ bfiles[1] # binput[1]

(***************************************************************************)
(* Word counter: count_words.                                              *)
(***************************************************************************)
\* \w: the letters and digits that occur in the files, and "_"
IsWordChar(c) ==
    c \in {"a", "b", "c", "g", "h", "p", "r", "s", "t", "u", "x", "y", "z",
           "0", "1", "2", "_"}

\* the backquote; a string of this module cannot hold the character itself
Tick == "~"

\* the fence of a code block: three backquotes
Fence == <<Tick, Tick, Tick>>

\* the least index j >= i at which pat occurs in s, or 0
RECURSIVE FindFrom(_, _, _)
FindFrom(s, pat, i) ==
    IF i + Len(pat) - 1 > Len(s) THEN 0
    ELSE IF SubSeq(s, i, i + Len(pat) - 1) = pat THEN i
    ELSE FindFrom(s, pat, i + 1)

RECURSIVE RemoveCodeBlocks(_, _)
\* re.sub(fence .*? fence, "", s, flags=re.DOTALL) from index i on: a fence and
\* all up to the nearest following fence, newlines included
RemoveCodeBlocks(s, i) ==
    IF i > Len(s) THEN <<>>
    ELSE LET close == IF i + 2 <= Len(s) /\ SubSeq(s, i, i + 2) = Fence
                      THEN FindFrom(s, Fence, i + 3)
                      ELSE 0
         IN IF close # 0 THEN RemoveCodeBlocks(s, close + 3)
            ELSE <<s[i]>> \o RemoveCodeBlocks(s, i + 1)

RECURSIVE FilterReferenceLines(_)
\* [line for line in lines if not is_reference_line(line)], or the error
\* that is_reference_line raised
FilterReferenceLines(lines) ==
    IF lines = <<>> THEN Returned(<<>>)
    ELSE LET isref == is_reference_line(lines[1])
             rest == FilterReferenceLines(Tail(lines))
         IN IF isref.raised # "NoError" THEN Raised(isref.raised)
            ELSE IF rest.raised # "NoError" THEN rest
            ELSE IF isref.val THEN rest
            ELSE Returned(<<lines[1]>> \o rest.val)

\* "](http"
LinkMiddle == <<"]", "(", "h", "t", "t", "p">>

RECURSIVE LinkEndFrom(_, _)
\* r"\[.*?\]\(http[^\)]+\)" matched with its "[" before index j: .*? takes
\* the fewest characters, none of them a newline, up to a "](http" that is
\* followed by one or more characters other than ")" and then by ")". The
\* index of that ")", or 0 when there is no match.
LinkEndFrom(s, j) ==
    IF j + Len(LinkMiddle) - 1 > Len(s) THEN 0
    ELSE LET after == j + Len(LinkMiddle)
             close == FindFrom(s, <<")">>, after)
         IN IF /\ SubSeq(s, j, j + Len(LinkMiddle) - 1) = LinkMiddle
               /\ close > after
            THEN close
            ELSE IF s[j] = NL THEN 0
            ELSE LinkEndFrom(s, j + 1)

RECURSIVE RemoveLinks(_, _)
\* re.sub(r"\[.*?\]\(http[^\)]+\)", "", s) from index i on
RemoveLinks(s, i) ==
    IF i > Len(s) THEN <<>>
    ELSE LET close == IF s[i] = "[" THEN LinkEndFrom(s, i + 1) ELSE 0
         IN IF close # 0 THEN RemoveLinks(s, close + 1)
            ELSE <<s[i]>> \o RemoveLinks(s, i + 1)

\* len(re.findall(r"\b\w+\b", s)): the number of maximal runs of \w
CountWordRuns(s) ==
    Cardinality({i \in 1..Len(s) :
        /\ IsWordChar(s[i])
        /\ i = 1 \/ ~IsWordChar(s[i - 1])})

\* count_words(file_path) for a file of the given content: the count
\* returned, or the ValueError that is_reference_line raised
count_words(content) ==
    LET kept == FilterReferenceLines(Splitlines(RemoveCodeBlocks(content, 1)))
    IN IF kept.raised # "NoError" THEN Raised(kept.raised)
       ELSE Returned(CountWordRuns(RemoveLinks(Join(kept.val, <<NL>>), 1)))

(***************************************************************************)
(* count_words called for one file (SpecWords).                            *)
(***************************************************************************)
\* "a b": two words
WordsProse == <<"a", " ", "b">>
\* "a [^1]": a word and a citation
WordsCite == <<"a", " ", "[", "^", "1", "]">>
\* "[t](http://u) a": a Markdown link and a word
WordsLink ==
    <<"[", "t", "]",
      "(", "h", "t", "t", "p", ":", "/", "/", "u", ")", " ", "a">>
\* "[^1] [t](http://u)": a citation and a Markdown link after it
WordsCiteLink ==
    <<"[", "^", "1", "]", " ", "[", "t", "]",
      "(", "h", "t", "t", "p", ":", "/", "/", "u", ")">>
\* "a http://u": a word and a bare URL
WordsUrl == <<"a", " ", "h", "t", "t", "p", ":", "/", "/", "u">>
\* a fence line
WordsFence == Fence
\* "[^1]: r": a reference declaration
WordsDecl == <<"[", "^", "1", "]", ":", " ", "r">>

WordLinePool ==
    {WordsProse, WordsCite, WordsLink, WordsCiteLink, WordsUrl, WordsFence,
     WordsDecl}

\* the files: up to MaxWordLines lines joined by "\n"
WordFiles ==
    {Join(lines, <<NL>>) :
        lines \in UNION {[1..n -> WordLinePool] : n \in 0..MaxWordLines}}

InitWords ==
    /\ NoDocument
    /\ ret = NoReturn
    /\ NoLedgerCall
    /\ NoProbe
    /\ NoCaptionCommand
    /\ NoHistory
    /\ NoBatch
    /\ wdoc \in WordFiles
    /\ wret = None

\* count_words(file_path)
CountWords ==
    /\ wret' = Some(count_words(wdoc))
    /\ UNCHANGED wdoc
    /\ UNCHANGED <<disk, md, pc, err, runs, ret, rc, res, arg, probeVars, captionVars, orig, hist, batchVars>>

NextWords == CountWords

SpecWords == InitWords /\ [][NextWords]_vars

\* the line opens or closes a fenced code block
IsFenceLine(line) == StartsWith(Strip(line), Fence)

RECURSIVE OutsideFences(_, _)
\* the lines that are neither fence lines nor between an opening fence line
\* and the fence line that closes it
OutsideFences(lines, inside) ==
    IF lines = <<>> THEN <<>>
    ELSE IF IsFenceLine(lines[1]) THEN OutsideFences(Tail(lines), ~inside)
    ELSE (IF inside THEN <<>> ELSE <<lines[1]>>)
         \o OutsideFences(Tail(lines), inside)

\* every fenced code block of the file is closed
FencesAreClosed(content) ==
    Cardinality({i \in 1..Len(Splitlines(content)) :
                    IsFenceLine(Splitlines(content)[i])}) % 2 = 0

\* a Markdown link [text](http...) starts at index i of s: the index of its
\* closing parenthesis, or 0. The text holds no bracket.
MarkdownLinkEnd(s, i) ==
    LET j == FindFrom(s, <<"]">>, i + 1)
        close == FindFrom(s, <<")">>, j + Len(LinkMiddle))
    IN IF /\ s[i] = "["
          /\ j # 0
          /\ \A k \in (i + 1)..(j - 1) : s[k] # "["
          /\ j + Len(LinkMiddle) - 1 <= Len(s)
          /\ SubSeq(s, j, j + Len(LinkMiddle) - 1) = LinkMiddle
       THEN close
       ELSE 0

RECURSIVE WithoutMarkdownLinks(_, _)
\* s from index i on, without the spans of its Markdown links
WithoutMarkdownLinks(s, i) ==
    IF i > Len(s) THEN <<>>
    ELSE IF MarkdownLinkEnd(s, i) # 0
         THEN WithoutMarkdownLinks(s, MarkdownLinkEnd(s, i) + 1)
    ELSE <<s[i]>> \o WithoutMarkdownLinks(s, i + 1)

\* "http://" or "https://" starts at index i of s
UrlStartsAt(s, i) ==
    \/ StartsWith(SubSeq(s, i, Len(s)), <<"h", "t", "t", "p", ":", "/", "/">>)
    \/ StartsWith(SubSeq(s, i, Len(s)), <<"h", "t", "t", "p", "s", ":", "/", "/">>)

RECURSIVE WithoutUrls(_, _, _)
\* s from index i on, without its URLs: a URL runs to the next whitespace
WithoutUrls(s, i, inUrl) ==
    IF i > Len(s) THEN <<>>
    ELSE IF IsSpace(s[i]) THEN <<s[i]>> \o WithoutUrls(s, i + 1, FALSE)
    ELSE IF inUrl \/ UrlStartsAt(s, i) THEN WithoutUrls(s, i + 1, TRUE)
    ELSE <<s[i]>> \o WithoutUrls(s, i + 1, FALSE)

\* the file has a URL outside every Markdown link
HasBareUrl(content) ==
    \E l \in 1..Len(Splitlines(content)) :
        LET line == WithoutMarkdownLinks(Splitlines(content)[l], 1)
        IN \E i \in 1..Len(line) : UrlStartsAt(line, i)

RECURSIVE SumOfCounts(_)
\* the sum of a sequence of numbers
SumOfCounts(counts) ==
    IF counts = <<>> THEN 0 ELSE counts[1] + SumOfCounts(Tail(counts))

\* the word tokens outside fenced code blocks, declaration lines and
\* Markdown links
WordsOutsideExcludedSpans(content) ==
    LET prose == SelectSeq(OutsideFences(Splitlines(content), FALSE),
                           LAMBDA line : ~FirstTokenIsDeclaration(line))
    IN SumOfCounts([l \in 1..Len(prose) |->
                       CountWordRuns(WithoutMarkdownLinks(prose[l], 1))])

\* C23: count_words returns the number of word tokens of the file outside
\* fenced code blocks (fence lines and contents), outside declaration lines
\* and outside Markdown links [text](http...); all other tokens, the digits
\* of a citation such as [^1] included, are counted. (Files with an unclosed
\* fence or a bare URL are left to C24 and not judged here.)
CountExcludesOnlyTheThreeSpans ==
    (wret # None /\ FencesAreClosed(wdoc) /\ ~HasBareUrl(wdoc)) =>
        wret[1] = Returned(WordsOutsideExcludedSpans(wdoc))

\* the file is prose: no fence, no bracket, so no code block, declaration,
\* citation or Markdown link
IsPlainProse(content) ==
    \A i \in 1..Len(content) : content[i] \notin {Tick, "[", "]"}

\* the word tokens of prose outside its URLs
WordsOutsideUrls(content) ==
    SumOfCounts([l \in 1..Len(Splitlines(content)) |->
                    CountWordRuns(WithoutUrls(Splitlines(content)[l], 1, FALSE))])

\* C24: for prose with bare http:// or https:// URLs, count_words counts
\* none of the tokens of the URLs and only the words around them.
CountExcludesBareUrls ==
    (wret # None /\ IsPlainProse(wdoc)) =>
        wret[1] = Returned(WordsOutsideUrls(wdoc))

\* the indices of text at which a citation [^id] starts, id being a run of
\* word characters and hyphens
CitationStarts(text) ==
    {i \in 1..Len(text) :
        /\ text[i] = "["
        /\ i + 1 <= Len(text)
        /\ text[i + 1] = "^"
        /\ IdRun(text, i + 2) # <<>>
        /\ i + 2 + Len(IdRun(text, i + 2)) <= Len(text)
        /\ text[i + 2 + Len(IdRun(text, i + 2))] = "]"}

\* the sum of number_of_appearances over a list of entries or records
Appearances(records) ==
    SumOfCounts([k \in 1..Len(records) |-> records[k].number_of_appearances])

\* C25: for a loaded document, the appearances of the ledger entries plus the
\* appearances of the records of get_orphan_references are as many as the
\* citations [^id] of the body text: every citation is counted exactly once.
EveryCitationCountedOnce ==
    ret.op = "get_orphan_references" =>
        Appearances(md.references) + Appearances(ret.val)
            = Cardinality(CitationStarts(BodyText))

\* orphans were reported for a document that cites a declared id and cites
\* an undeclared id twice
ReportedDeclaredAndRepeatedOrphan ==
    /\ ret.op = "get_orphan_references"
    /\ Appearances(md.references) >= 1
    /\ \E k \in 1..Len(ret.val) : ret.val[k].number_of_appearances = 2

(***************************************************************************)
(* The ledger of a loaded document under add_reference, record_appearance  *)
(* and _count_appearances (SpecScan).                                      *)
(***************************************************************************)
\* the files: without citation, citing b and a, citing both and declaring a,
\* citing a twice and declaring it, and declaring a twice
ScanFiles ==
    {TextLine,
     CiteBA,
     Join(<<CiteBA, DeclA>>, <<NL>>),
     Join(<<CiteAB, DeclA, CiteBA>>, <<NL>>),
     Join(<<DeclA, DeclA>>, <<NL>>)}

\* the positions that the scan of m records on each entry, as sets
ScannedPositions(m) ==
    [i \in 1..Len(m.references) |->
        LET starts == FindIter(Join(m.body_lines, <<NL>>),
                               CitationPattern(m.references[i].reference_id), 1)
        IN {starts[k] : k \in 1..Len(starts)}]

InitScan ==
    /\ disk \in ScanFiles
    /\ md = NoObject
    /\ pc = "idle"
    /\ err = "NoError"
    /\ runs = 0
    /\ ret = NoReturn
    /\ NoLedgerCall
    /\ NoProbe
    /\ NoCaptionCommand
    /\ NoHistory
    /\ NoBatch
    /\ NoWordCount

\* md = MarkdownFile(file_path): the entries are created by the split phase
\* and the scan records the citations of each
LoadScanned ==
    /\ pc = "idle"
    /\ LET made == MarkdownFile(disk)
       IN IF made.raised = "NoError"
          THEN /\ md' = made.val
               /\ pc' = "loaded"
               /\ err' = "NoError"
               /\ hist' = ScannedPositions(made.val)
          ELSE /\ md' = NoObject
               /\ pc' = "error"
               /\ err' = made.raised
               /\ hist' = hist
    /\ res' = "loaded"
    /\ UNCHANGED <<disk, runs, ret, rc, arg, probeVars, captionVars>>
    /\ UNCHANGED <<orig, batchVars, wordVars>>

\* md.references.add_reference(line) on the loaded document
AddToLoaded ==
    /\ pc = "loaded"
    /\ \E line \in {DeclA, DeclC, TextLine} :
          LET added == add_reference(md.references, line)
          IN IF added.raised = "NoError"
             THEN /\ Len(md.references) < MaxRefs
                  /\ md' = [md EXCEPT !.references = added.val]
                  /\ hist' = Append(hist, {})
                  /\ res' = "added"
             ELSE /\ md' = md
                  /\ hist' = hist
                  /\ res' = added.raised
    /\ UNCHANGED <<disk, pc, err, runs, ret, rc, arg, probeVars, captionVars>>
    /\ UNCHANGED <<orig, batchVars, wordVars>>

\* md.references.references[i].record_appearance(position)
RecordOnLoaded ==
    /\ pc = "loaded"
    /\ \E i \in 1..Len(md.references), position \in 0..MaxPos :
          /\ md.references[i].number_of_appearances <= MaxAppear
          /\ md' = [md EXCEPT !.references[i] =
                       record_appearance(md.references[i], position)]
          /\ hist' = [hist EXCEPT ![i] = @ \cup {position}]
    /\ res' = "recorded"
    /\ UNCHANGED <<disk, pc, err, runs, ret, rc, arg, probeVars, captionVars>>
    /\ UNCHANGED <<orig, batchVars, wordVars>>

\* md._count_appearances(): every entry is reset, then the body is scanned
CountAppearances ==
    /\ pc = "loaded"
    /\ md' = _count_appearances(md)
    /\ hist' = ScannedPositions(md)
    /\ res' = "scanned"
    /\ UNCHANGED <<disk, pc, err, runs, ret, rc, arg, probeVars, captionVars>>
    /\ UNCHANGED <<orig, batchVars, wordVars>>

NextScan ==
    \/ LoadScanned
    \/ AddToLoaded
    \/ RecordOnLoaded
    \/ CountAppearances

SpecScan == InitScan /\ [][NextScan]_vars

\* C26: after any sequence of add_reference, record_appearance and scans,
\* every entry of the ledger has number_of_appearances = 0 exactly when its
\* first_appearance_pos is unset, and a position that is set is no greater
\* than any position recorded on the entry since it was made or last reset.
CountIsZeroIffPositionUnset ==
    pc = "loaded" =>
        \A i \in 1..Len(md.references) :
            /\ md.references[i].number_of_appearances = 0
                  <=> md.references[i].first_appearance_pos = None
            /\ md.references[i].first_appearance_pos # None =>
                  \A p \in hist[i] : md.references[i].first_appearance_pos[1] <= p

\* a position lower than the scanned one was recorded on an entry, beside an
\* entry without appearance and without position
LoweredEntryBesideUnsetEntry ==
    /\ pc = "loaded"
    /\ res = "recorded"
    /\ \E i, j \in 1..Len(md.references) :
          /\ Cardinality(hist[i]) >= 2
          /\ 0 \notin ScannedPositions(md)[i]
          /\ md.references[i].first_appearance_pos = Some(0)
          /\ md.references[j].number_of_appearances = 0
          /\ md.references[j].first_appearance_pos = None

\* C27: every line that is_reference_line classifies as a declaration has an
\* id that extract_id extracts without error; so loading a document fails
\* only with the error of a declaration without text or with the error of a
\* duplicate id, never with an error of extract_id.
ClassifierAndExtractorAgree ==
    /\ (out.op = "is_reference_line" /\ out.val = Returned(TRUE)) =>
          extract_id(Strip(input)).raised = "NoError"
    /\ pc = "error" => err \in {"no_text_after_id", "duplicate_id"}


(***************************************************************************)
(* `references fix` run again and again on the file it wrote, the original *)
(* content kept for comparison (SpecRepeat).                               *)
(***************************************************************************)
InitRepeat ==
    /\ disk \in Files
    /\ md = NoObject
    /\ pc = "idle"
    /\ err = "NoError"
    /\ runs = 0
    /\ ret = NoReturn
    /\ NoLedgerCall
    /\ NoProbe
    /\ NoCaptionCommand
    /\ orig = disk
    /\ hist = <<>>
    /\ NoBatch
    /\ NoWordCount

NextRepeat ==
    \/ Load
    \/ Fix

SpecRepeat == InitRepeat /\ [][NextRepeat]_vars

RECURSIVE TrailingEmptyLines(_)
\* the number of empty lines at the end of lines
TrailingEmptyLines(lines) ==
    IF lines # <<>> /\ lines[Len(lines)] = <<>>
    THEN 1 + TrailingEmptyLines(SubSeq(lines, 1, Len(lines) - 1))
    ELSE 0

\* the runs after which the content has to be stable: the empty lines at the
\* end of the body of the original file, plus one
RunsUntilStable ==
    TrailingEmptyLines(NonDeclarationLines(orig)) + 1

\* C28: repeating the reference fix (load, fix_references) on the same file
\* reaches a fixed point: once the file was fixed as many times as the
\* original body has empty lines at its end, plus one, a further run writes
\* the content the file already has.
RepeatedFixReachesFixedPoint ==
    [][(pc = "loaded" /\ pc' = "fixed" /\ runs >= RunsUntilStable)
          => disk' = disk]_vars

\* a file whose body ended with two empty lines was fixed once more than the
\* runs it needs, each needed run having changed it
FixedPastTheLastChange ==
    /\ pc = "fixed"
    /\ RunsUntilStable = 3
    /\ runs = 4
    /\ Len(disk) + 3 <= Len(orig)


\* C29: fix_captions does not refresh the object: after a fix that returned
\* n > 0 the lines and captions of the object are unchanged, it still
\* reports n issues and is not in order, and a second fix_captions on it
\* returns n again and writes the same content; a CaptionFile made anew from
\* the written file differs from the object and is in order.
FixLeavesObjectStale ==
    [][(IsFixCaptionsStep /\ cret' > 0) =>
          /\ cf' = cf
          /\ Len(get_caption_issues(cf')) = cret'
          /\ ~is_in_order(cf')
          /\ fix_captions(cf') = [count |-> cret', written |-> Some(cdisk')]
          /\ (cop = "fix_captions" /\ cret > 0) =>
                (cret' = cret /\ cdisk' = cdisk)
          /\ CaptionFile(cdisk') # cf'
          /\ is_in_order(CaptionFile(cdisk'))]_vars

\* the same object was fixed twice, each call returning two changes and
\* writing the file, and still holds the lines it loaded
FixedTwiceWithoutReload ==
    /\ cop = "fix_captions"
    /\ cret = 2
    /\ cwrites = 2
    /\ cf.lines # Splitlines(cdisk)


(***************************************************************************)
(* The report methods of a loaded document and of a loaded caption file,   *)
(* called in any order between loads and fixes (SpecReports).              *)
(***************************************************************************)
\* the documents: declarations in another order than their citations, an
\* unused declaration, a duplicate declaration, and citations without
\* declaration beside a declared one
ReportFiles ==
    {BatchReordered, BatchUnused, BatchDuplicate, Join(<<CiteCGG, DeclC>>, <<NL>>)}

\* the caption files: two captions out of order, a malformed caption between
\* two captions, and a file without caption
ReportCaptionFiles ==
    {Join(<<Kuva2Indented, Kuva1>>, <<NL>>),
     Join(<<Kuva1, KuvaMalformed, Kuva10>>, <<NL>>),
     TextLine}

InitReports ==
    /\ disk \in ReportFiles
    /\ md = NoObject
    /\ pc = "idle"
    /\ err = "NoError"
    /\ runs = 0
    /\ ret = NoReturn
    /\ NoLedgerCall
    /\ NoProbe
    /\ cdisk \in ReportCaptionFiles
    /\ cf = NoCaptionFile
    /\ cpc = "idle"
    /\ cop = "none"
    /\ cret = <<>>
    /\ cwrites = 0
    /\ NoHistory
    /\ NoBatch
    /\ NoWordCount

\* get_ordered_by_pos sorting the list of the ledger itself
ReportOrderedSortingInPlace ==
    /\ pc = "loaded"
    /\ \E only_appearing \in BOOLEAN :
          ret' = [op |-> IF only_appearing THEN "get_ordered_by_pos(True)"
                         ELSE "get_ordered_by_pos(False)",
                  val |-> get_ordered_by_pos(md.references, only_appearing)]
    /\ md' = [md EXCEPT !.references = get_ordered_by_pos(md.references, FALSE)]
    /\ UNCHANGED <<disk, pc, err, runs, rc, res>>
    /\ UNCHANGED <<arg, probeVars, captionVars>>
    /\ UNCHANGED restVars

\* md.references.get_ordered_by_pos(only_appearing)
ReportOrdered ==
    /\ pc = "loaded"
    /\ \E only_appearing \in BOOLEAN :
          ret' = [op |-> IF only_appearing THEN "get_ordered_by_pos(True)"
                         ELSE "get_ordered_by_pos(False)",
                  val |-> get_ordered_by_pos(md.references, only_appearing)]
    /\ UNCHANGED <<disk, md, pc, err, runs, rc, res>>
    /\ UNCHANGED <<arg, probeVars, captionVars>>
    /\ UNCHANGED restVars

\* md.references.get_unappearing_references()
ReportUnappearing ==
    /\ pc = "loaded"
    /\ ret' = [op |-> "get_unappearing_references",
               val |-> get_unappearing_references(md.references)]
    /\ UNCHANGED <<disk, md, pc, err, runs, rc, res>>
    /\ UNCHANGED <<arg, probeVars, captionVars>>
    /\ UNCHANGED restVars

NextReports ==
    \/ Load
    \/ ReportOrphans
    \/ ReportUnused
    \/ ReportOrdered
    \/ ReportUnappearing
    \/ Fix
    \/ LoadCaptions
    \/ ReportIssues
    \/ IsInOrder
    \/ ReportMalformed
    \/ FixCaptions

SpecReports == InitReports /\ [][NextReports]_vars

\* the step is a report on the document, or a report on the caption file
IsReportStep ==
    \/ /\ ret' # ret
       /\ ret'.op \in {"get_orphan_references", "get_unused_references",
                       "get_ordered_by_pos(True)", "get_ordered_by_pos(False)",
                       "get_unappearing_references"}
    \/ /\ cop' \in {"get_caption_issues", "is_in_order", "get_malformed_captions"}
       /\ (cop' # cop \/ cret' # cret)

\* what the last report on the document returned is what the same report
\* returns now
LastReportIsCurrent ==
    pc = "loaded" =>
        /\ ret.op = "get_orphan_references" => ret.val = get_orphan_references(md)
        /\ ret.op = "get_unused_references" => ret.val = get_unused_references(md)
        /\ ret.op = "get_ordered_by_pos(True)" =>
              ret.val = get_ordered_by_pos(md.references, TRUE)
        /\ ret.op = "get_ordered_by_pos(False)" =>
              ret.val = get_ordered_by_pos(md.references, FALSE)
        /\ ret.op = "get_unappearing_references" =>
              ret.val = get_unappearing_references(md.references)

\* C30: the report operations are read-only: a report writes no file and
\* leaves the ledger (entries, order, counts, positions), the body lines, the
\* caption list and the stored lines as they are, so that a result returned
\* earlier is the result the same report returns now, and what a later fix
\* writes is not changed by the reports called before it.
ReportsAreReadOnly ==
    /\ []LastReportIsCurrent
    /\ [][IsReportStep =>
             /\ disk' = disk
             /\ md' = md
             /\ runs' = runs
             /\ cdisk' = cdisk
             /\ cf' = cf
             /\ cwrites' = cwrites
             /\ _get_final_content(md') = _get_final_content(md)
             /\ fix_captions(cf') = fix_captions(cf)]_vars

\* the ledger was reported in another order than it is kept, and issues were
\* reported for the caption file, with no file written
ReportedReorderingAndIssues ==
    /\ ret.op = "get_ordered_by_pos(False)"
    /\ ret.val # md.references
    /\ cop = "get_caption_issues"
    /\ Len(cret) > 0
    /\ runs = 0
    /\ cwrites = 0

=============================================================================
